---- MODULE Spec2Model ----
(***************************************************************************)
(* A model of the Splunk MCP server core: the machine-bound credential     *)
(* vault (src/utils/credential_manager.py, encrypt_password.py), the       *)
(* Splunk client (src/utils/splunk_client.py), the response formatter      *)
(* (src/utils/response_formatter.py) and call_tool (splunk_mcp.py).        *)
(*                                                                         *)
(* Conventions.  A Python str is a sequence of code points, a bytes value  *)
(* a sequence of numbers 0..255, a dict a function whose DOMAIN is its key *)
(* set.  A call's outcome is a record: exc = "none" and val, or exc = the  *)
(* exception class raised and kind = which raise statement raised it.      *)
(***************************************************************************)
EXTENDS Integers, Sequences, FiniteSets, TLC

VARIABLES
    machine,    \* the host this process runs on (fixes _machine_id)
    cfg,        \* config['splunk'], the mapping get_splunk_config() returns
    edits,      \* how many times the operator edited cfg by hand
    prov,       \* the last run of the provisioning script: host, secret, output
    credCall,   \* the last CredentialManager call: its input and outcome
    connections, \* SplunkClient._connections: 'main' -> Service, or empty
    live,       \* the sessions logged in to the remote service and not logged out
    nsess,      \* how many sessions the remote service has opened so far
    stored,     \* the sessions that have been assigned to the cache slot
    tested,     \* the sessions whose post-login apps.list() succeeded
    th,         \* the call each worker thread is in: position, locals, history
    fmt,        \* the last ResponseFormatter call: its input and outcome
    tool        \* the call_tool invocation: its name, arguments and payload

credVars == <<machine, cfg, edits, prov, credCall>>
clientVars == <<connections, live, nsess, stored, tested, th>>
fmtVars == <<fmt>>
toolVars == <<tool>>
vars == <<machine, cfg, edits, prov, credCall, connections, live, nsess, stored, tested, th,
          fmt, tool>>

(***************************************************************************)
(* Bounds of the model.                                                    *)
(***************************************************************************)
TagLen == 16
SaltLen == 16
MaxSecretLen == 2
MaxEdits == 1
NumHosts == 2
MaxSessions == 3
MaxRetry == 4
DefaultRetryCount == 3

\* host 1 is the one the server process runs on
Hosts == 1..NumHosts
\* code points with a 2- and a 3-byte UTF-8 encoding: e-acute, euro
Chars == {233, 8364}
RECURSIVE StrsUpTo(_)
StrsUpTo(n) ==
    IF n = 0 THEN {<<>>}
    ELSE LET shorter == StrsUpTo(n - 1)
         IN  shorter \cup {Append(s, c) : s \in {x \in shorter : Len(x) = n - 1}, c \in Chars}
Secrets == StrsUpTo(MaxSecretLen) \ {<<>>}
Usernames == {<<117>>}

(***************************************************************************)
(* Text and byte conversions.                                              *)
(***************************************************************************)
Ok(v) == [exc |-> "none", kind |-> "", val |-> v]
Raise(e, k) == [exc |-> e, kind |-> k, val |-> <<>>]

RECURSIVE Utf8Bytes(_, _)
\* the UTF-8 bytes of the code points of s from position i on
Utf8Bytes(s, i) ==
    IF i > Len(s) THEN <<>>
    ELSE (IF s[i] < 128 THEN <<s[i]>>
          ELSE IF s[i] < 2048 THEN <<192 + (s[i] \div 64), 128 + (s[i] % 64)>>
          ELSE <<224 + (s[i] \div 4096), 128 + ((s[i] \div 64) % 64), 128 + (s[i] % 64)>>)
         \o Utf8Bytes(s, i + 1)

\* str.encode(): UTF-8; an ASCII string is its own encoding
Utf8Encode(s) == IF \A i \in 1..Len(s) : s[i] < 128 THEN s ELSE Utf8Bytes(s, 1)

IsCont(b) == b >= 128 /\ b < 192

RECURSIVE Utf8Points(_)
\* the code points of a UTF-8 byte sequence, -1 where it is malformed
Utf8Points(bs) ==
    IF bs = <<>> THEN <<>>
    ELSE LET b == Head(bs)
             n == IF b < 128 THEN 1
                  ELSE IF b >= 194 /\ b < 224 THEN 2
                  ELSE IF b >= 224 /\ b < 240 THEN 3
                  ELSE 0
         IN  IF n = 0 \/ Len(bs) < n \/ (\E i \in 2..n : ~IsCont(bs[i]))
             THEN <<-1>>
             ELSE IF n = 3 /\ (b - 224) * 4096 + (bs[2] - 128) * 64 < 2048
             THEN <<-1>>
             ELSE <<IF n = 1 THEN b
                    ELSE IF n = 2 THEN (b - 192) * 64 + (bs[2] - 128)
                    ELSE (b - 224) * 4096 + (bs[2] - 128) * 64 + (bs[3] - 128)>>
                  \o Utf8Points(SubSeq(bs, n + 1, Len(bs)))

PointsOrError(cs) ==
    IF \E i \in 1..Len(cs) : cs[i] = -1 THEN Raise("UnicodeDecodeError", "utf8") ELSE Ok(cs)

\* bytes.decode('utf-8'): the code points, or UnicodeDecodeError
Utf8Decode(bs) == PointsOrError(Utf8Points(bs))

\* the URL-safe base64 alphabet: A-Z a-z 0-9 - _
B64Char(i) ==
    IF i < 26 THEN 65 + i
    ELSE IF i < 52 THEN 97 + (i - 26)
    ELSE IF i < 62 THEN 48 + (i - 52)
    ELSE IF i = 62 THEN 45 ELSE 95

B64Val(c) ==
    IF c >= 65 /\ c <= 90 THEN c - 65
    ELSE IF c >= 97 /\ c <= 122 THEN c - 97 + 26
    ELSE IF c >= 48 /\ c <= 57 THEN c - 48 + 52
    ELSE IF c = 45 \/ c = 43 THEN 62
    ELSE IF c = 95 \/ c = 47 THEN 63
    ELSE -1

\* '=', the base64 padding character
Pad == 61

\* byte i of bs, 0 past its end
ByteAt(bs, i) == IF i <= Len(bs) THEN bs[i] ELSE 0

\* base64.urlsafe_b64encode: 3 bytes to 4 characters, the last group padded
urlsafe_b64encode(bs) ==
    [i \in 1..(4 * ((Len(bs) + 2) \div 3)) |->
        LET g == 3 * ((i - 1) \div 4)
            p == (i - 1) % 4
        IN  IF p = 0 THEN B64Char(bs[g + 1] \div 4)
            ELSE IF p = 1 THEN B64Char((bs[g + 1] % 4) * 16 + (ByteAt(bs, g + 2) \div 16))
            ELSE IF p = 2
            THEN IF g + 2 > Len(bs) THEN Pad
                 ELSE B64Char((bs[g + 2] % 16) * 4 + (ByteAt(bs, g + 3) \div 64))
            ELSE IF g + 3 > Len(bs) THEN Pad ELSE B64Char(bs[g + 3] % 64)]

IsB64(c) == c = Pad \/ B64Val(c) >= 0

\* how many pads end cs
TrailingPads(cs) ==
    IF Len(cs) >= 1 /\ cs[Len(cs)] = Pad
    THEN IF Len(cs) >= 2 /\ cs[Len(cs) - 1] = Pad THEN 2 ELSE 1
    ELSE 0

\* the bytes of a sequence of alphabet characters and pads: whole groups
\* of 4, pads only as the last one or two characters
B64Quads(cs) ==
    LET n == Len(cs)
        pads == TrailingPads(cs)
    IN  IF n % 4 # 0 \/ (\E i \in 1..(n - pads) : cs[i] = Pad)
        THEN Raise("binascii.Error", "padding")
        ELSE Ok([j \in 1..(3 * (n \div 4) - pads) |->
                   LET g == 4 * ((j - 1) \div 3)
                       p == (j - 1) % 3
                   IN  IF p = 0 THEN B64Val(cs[g + 1]) * 4 + (B64Val(cs[g + 2]) \div 16)
                       ELSE IF p = 1
                       THEN (B64Val(cs[g + 2]) % 16) * 16 + (B64Val(cs[g + 3]) \div 4)
                       ELSE (B64Val(cs[g + 3]) % 4) * 64 + B64Val(cs[g + 4])])

\* base64.urlsafe_b64decode: characters outside the alphabet are discarded,
\* a wrong padding raises binascii.Error
urlsafe_b64decode(bs) == B64Quads(SelectSeq(bs, IsB64))

(***************************************************************************)
(* Key derivation and authenticated encryption.  The cryptography library  *)
(* is not part of the repository; it is modelled by what the callers rely  *)
(* on: the derived key is a function of (machine id, salt) that differs    *)
(* when either differs, and a token decrypts only under the key that made  *)
(* it and only if no byte of it was changed.                               *)
(***************************************************************************)
HexChar(d) == IF d < 10 THEN 48 + d ELSE 97 + (d - 10)

\* _get_machine_id(): the hex digest that identifies host m
get_machine_id(m) == [i \in 1..4 |-> HexChar((m * (i + 2)) % 16)]

\* hashlib.sha256(machine_id.encode()).hexdigest()[:16]
machine_hash_of(m) == [i \in 1..TagLen |-> HexChar((m * 5 + i) % 16)]

RECURSIVE SumSeq(_)
SumSeq(bs) == IF bs = <<>> THEN 0 ELSE Head(bs) + SumSeq(Tail(bs))

\* PBKDF2HMAC(SHA256, length=32, salt, iterations=100000).derive(machine_id)
Pbkdf2(machine_id, salt) ==
    <<SumSeq(Utf8Encode(machine_id)) % 256, SumSeq(salt) % 256, ByteAt(salt, Len(salt))>>

\* _derive_key(salt): the Fernet key, base64 text
derive_key(m, salt) == urlsafe_b64encode(Pbkdf2(get_machine_id(m), salt))

Shift(k) == SumSeq(k) % 256
FernetMac(k, body) == k \o <<(SumSeq(body) + Len(body)) % 256>>
Sealed(k, body) == urlsafe_b64encode(body \o FernetMac(k, body))
Shifted(data, d) == [i \in 1..Len(data) |-> (data[i] + d) % 256]

\* Fernet(key).encrypt(data): version byte, ciphertext, MAC; base64 text
FernetEncrypt(key, data) ==
    Sealed(urlsafe_b64decode(key).val,
           <<128>> \o Shifted(data, Shift(urlsafe_b64decode(key).val)))

\* the token's bytes raw are checked under key bytes k and opened
FernetOpen(k, raw) ==
    IF Len(raw) < Len(k) + 2 \/ raw[1] # 128
       \/ SubSeq(raw, Len(raw) - Len(k), Len(raw))
            # FernetMac(k, SubSeq(raw, 1, Len(raw) - (Len(k) + 1)))
    THEN Raise("InvalidToken", "token")
    ELSE Ok(Shifted(SubSeq(raw, 2, Len(raw) - (Len(k) + 1)), 256 - Shift(k)))

FernetChecked(k, raw) ==
    IF raw.exc # "none" THEN Raise("InvalidToken", "token") ELSE FernetOpen(k, raw.val)

\* Fernet(key).decrypt(token): the data, or InvalidToken
FernetDecrypt(key, token) ==
    FernetChecked(urlsafe_b64decode(key).val, urlsafe_b64decode(token))

(***************************************************************************)
(* encrypt_password.py: the provisioning script.                           *)
(***************************************************************************)
Has(d, k) == k \in DOMAIN d
Get(d, k, default) == IF k \in DOMAIN d THEN d[k] ELSE default
\* Python's None
None == <<-1>>

\* encrypt_password(password), run on host m with os.urandom(16) = salt
encrypt_password(password, m, salt) ==
    [encrypted |-> urlsafe_b64encode(FernetEncrypt(derive_key(m, salt), Utf8Encode(password))),
     salt |-> urlsafe_b64encode(salt),
     machine_hash |-> machine_hash_of(m)]

Done(r, steps) == [exc |-> r.exc, kind |-> r.kind, val |-> r.val, steps |-> steps]

\* lines 103-105 of the script: decrypt and decode
CliDecrypted(decrypted, did) ==
    IF decrypted.exc # "none" THEN Done(decrypted, did) ELSE Done(Utf8Decode(decrypted.val), did)

\* lines 99-103 of the script, the salt decoded
CliWithKey(key, encrypted) ==
    IF encrypted.exc # "none"
    THEN Done(encrypted, <<"decode_salt", "derive_key", "decode_encrypted">>)
    ELSE CliDecrypted(FernetDecrypt(key, encrypted.val),
                      <<"decode_salt", "derive_key", "decode_encrypted", "decrypt">>)

CliWithSalt(data, m, salt) ==
    IF salt.exc # "none" THEN Done(salt, <<"decode_salt">>)
    ELSE IF ~Has(data, "encrypted")
    THEN Done(Raise("KeyError", "encrypted"), <<"decode_salt", "derive_key">>)
    ELSE CliWithKey(derive_key(m, salt.val), urlsafe_b64decode(Utf8Encode(data["encrypted"])))

\* decrypt_password(encrypted_data) of the script, run on host m, with the
\* steps it performed; nothing is caught here, so the library's exceptions
\* leave as they are
cli_decrypt_password(data, m) ==
    IF ~Has(data, "machine_hash") THEN Done(Raise("KeyError", "machine_hash"), <<>>)
    ELSE IF machine_hash_of(m) # data["machine_hash"]
    THEN Done(Raise("ValueError", "machine_mismatch"), <<>>)
    ELSE IF ~Has(data, "salt") THEN Done(Raise("KeyError", "salt"), <<>>)
    ELSE CliWithSalt(data, m, urlsafe_b64decode(Utf8Encode(data["salt"])))

\* the YAML fragment main() prints, as the mapping it loads to
Fragment(username, data) ==
    [username |-> username,
     password_encrypted |-> data.encrypted,
     password_salt |-> data.salt,
     machine_hash |-> data.machine_hash]

(***************************************************************************)
(* src/utils/credential_manager.py.  Besides its outcome a call reports    *)
(* the steps it performed, in order.                                       *)
(***************************************************************************)
\* lines 105-111 decoding the password as Latin-1: a byte is a character
DecryptedLatin1(decrypted, did) == Done(decrypted, did)

\* lines 105-111: decrypt, then decode the password as UTF-8
Decrypted(decrypted, did) ==
    IF decrypted.exc # "none" THEN Done(decrypted, did) ELSE Done(Utf8Decode(decrypted.val), did)

\* lines 99-106, the salt decoded
WithEncrypted(m, salt, encrypted) ==
    IF encrypted.exc # "none"
    THEN Done(encrypted, <<"decode_salt", "decode_encrypted">>)
    ELSE Decrypted(FernetDecrypt(derive_key(m, salt), encrypted.val),
                   <<"decode_salt", "decode_encrypted", "derive_key", "decrypt">>)

WithSalt(data, m, salt) ==
    IF salt.exc # "none" THEN Done(salt, <<"decode_salt">>)
    ELSE IF ~Has(data, "password_encrypted")
    THEN Done(Raise("KeyError", "password_encrypted"), <<"decode_salt">>)
    ELSE WithEncrypted(m, salt.val, urlsafe_b64decode(Utf8Encode(data["password_encrypted"])))

\* the body of the try block of decrypt_password, lines 97-111
DecryptSteps(data, m) ==
    IF ~Has(data, "password_salt") THEN Done(Raise("KeyError", "password_salt"), <<>>)
    ELSE WithSalt(data, m, urlsafe_b64decode(Utf8Encode(data["password_salt"])))

\* the machine check of decrypt_password, line 90
SameMachine(data, m) == Get(data, "machine_hash", None) = machine_hash_of(m)

\* the except clauses of decrypt_password, lines 113-119
Caught(r) ==
    IF r.exc = "none" THEN r ELSE Done(Raise("ValueError", "decryption_failed"), r.steps)

\* decrypt_password checking the machine only after the decryption
decrypt_password_check_last(data, m) ==
    IF Caught(DecryptSteps(data, m)).exc = "none" /\ ~SameMachine(data, m)
    THEN Done(Raise("ValueError", "machine_mismatch"), Caught(DecryptSteps(data, m)).steps)
    ELSE Caught(DecryptSteps(data, m))

\* CredentialManager.decrypt_password(encrypted_data) on host m
decrypt_password(data, m) ==
    IF ~SameMachine(data, m)
    THEN Done(Raise("ValueError", "machine_mismatch"), <<>>)
    ELSE Caught(DecryptSteps(data, m))

\* the encrypted_data get_credentials builds, lines 139-143
EncryptedData(splunk_config) ==
    [password_encrypted |-> splunk_config["password_encrypted"],
     password_salt |-> splunk_config["password_salt"],
     machine_hash |-> Get(splunk_config, "machine_hash", <<>>)]

\* lines 145-150: the password decrypt_password returned, or its exception
FromDecrypt(username, r) ==
    IF r.exc # "none" THEN Done(r, <<"decrypt_password">> \o r.steps)
    ELSE Done(Ok([username |-> username, password |-> r.val]),
              <<"decrypt_password">> \o r.steps)

\* CredentialManager.get_credentials(splunk_config) on host m
get_credentials(splunk_config, m) ==
    IF ~Has(splunk_config, "username")
    THEN Done(Raise("ValueError", "missing_credentials"), <<>>)
    ELSE IF Has(splunk_config, "password_encrypted")
    THEN IF ~Has(splunk_config, "password_salt")
         THEN Done(Raise("KeyError", "password_salt"), <<>>)
         ELSE FromDecrypt(splunk_config["username"],
                          decrypt_password(EncryptedData(splunk_config), m))
    ELSE IF Has(splunk_config, "password")
    THEN Done(Ok([username |-> splunk_config["username"],
                  password |-> splunk_config["password"]]),
              <<"read_password", "warn_plaintext">>)
    ELSE Done(Raise("ValueError", "missing_credentials"), <<>>)

(***************************************************************************)
(* The credential world: the operator provisions and edits the             *)
(* configuration, the server process calls the CredentialManager.          *)
(***************************************************************************)
Salts == {[i \in 1..SaltLen |-> 0], [i \in 1..SaltLen |-> (i * 37) % 256]}
NoCall == [op |-> "none"]
NoProv == [host |-> 0]
EncKeys == {"password_encrypted", "password_salt", "machine_hash"}

Restrict(d, ks) == [k \in (DOMAIN d) \cap ks |-> d[k]]
Without(d, k) == [x \in (DOMAIN d) \ {k} |-> d[x]]
With(d, k, v) == [x \in (DOMAIN d) \cup {k} |-> IF x = k THEN v ELSE d[x]]

CredInit ==
    /\ machine = 1
    /\ cfg \in {[username |-> u] : u \in Usernames}
    /\ edits = 0
    /\ prov = NoProv
    /\ credCall = NoCall

\* the configuration file with the printed fragment pasted into it
Pasted(fragment) ==
    [k \in DOMAIN cfg \cup DOMAIN fragment |->
        IF k \in DOMAIN fragment THEN fragment[k] ELSE cfg[k]]

\* lines 164-178 of the script: exit on a failed check, else print
Provisioned(m, u, password, data, check) ==
    /\ check.exc = "none" /\ check.val = password
    /\ cfg' = Pasted(Fragment(u, data))
    /\ prov' = [host |-> m, secret |-> password, data |-> data]

\* lines 157-167 of the script: the self-check of the encrypted secret
Verified(m, u, password, data) ==
    Provisioned(m, u, password, data, cli_decrypt_password(data, m))

\* main() of encrypt_password.py run on host m, its output pasted into
\* the configuration file
Provision(m, u, password, salt) ==
    /\ prov = NoProv
    /\ Verified(m, u, password, encrypt_password(password, m, salt))
    /\ UNCHANGED <<machine, edits, credCall>>
    /\ UNCHANGED <<clientVars, fmtVars, toolVars>>

\* the operator writes a plain password into the configuration
SetPassword(password) ==
    /\ ~Has(cfg, "password")
    /\ edits < MaxEdits
    /\ cfg' = With(cfg, "password", password)
    /\ edits' = edits + 1
    /\ UNCHANGED <<machine, prov, credCall>>
    /\ UNCHANGED <<clientVars, fmtVars, toolVars>>

\* the operator deletes a key of the configuration
DropKey(k) ==
    /\ Has(cfg, k)
    /\ edits < MaxEdits
    /\ cfg' = Without(cfg, k)
    /\ edits' = edits + 1
    /\ UNCHANGED <<machine, prov, credCall>>
    /\ UNCHANGED <<clientVars, fmtVars, toolVars>>

Flip(c) == IF c = 65 THEN 66 ELSE 65

\* a character of a stored value is changed, or its last character lost
Tamper(k, cut) ==
    /\ Has(cfg, k) /\ k \in EncKeys
    /\ Len(cfg[k]) > 0
    /\ edits < MaxEdits
    /\ cfg' = [cfg EXCEPT ![k] = IF cut THEN SubSeq(cfg[k], 1, Len(cfg[k]) - 1)
                                 ELSE [i \in 1..Len(cfg[k]) |->
                                         IF i = 1 THEN Flip(cfg[k][1]) ELSE cfg[k][i]]]
    /\ edits' = edits + 1
    /\ UNCHANGED <<machine, prov, credCall>>
    /\ UNCHANGED <<clientVars, fmtVars, toolVars>>

\* the server process calls credential_manager.get_credentials(splunk_config)
CallGetCredentials ==
    /\ credCall' = [op |-> "get_credentials", arg |-> cfg, host |-> machine,
                    res |-> get_credentials(cfg, machine)]
    /\ UNCHANGED <<machine, cfg, edits, prov>>
    /\ UNCHANGED <<clientVars, fmtVars, toolVars>>

\* credential_manager.decrypt_password called with the stored fields
CallDecryptPassword ==
    /\ credCall' = [op |-> "decrypt_password", arg |-> Restrict(cfg, EncKeys),
                    host |-> machine,
                    res |-> decrypt_password(Restrict(cfg, EncKeys), machine)]
    /\ UNCHANGED <<machine, cfg, edits, prov>>
    /\ UNCHANGED <<clientVars, fmtVars, toolVars>>

CliCall(h, data) ==
    [op |-> "cli_decrypt_password", arg |-> data, host |-> h,
     res |-> cli_decrypt_password(data, h)]

FlipFirst(v) == [i \in 1..Len(v) |-> IF i = 1 THEN Flip(v[1]) ELSE v[i]]

\* the script's decrypt_password called on host h with the dict its
\* encrypt_password returned, or with that dict's tag changed; the script
\* never reads the configuration file, so its calls come before the edits
CallCliDecrypt(h, flip) ==
    /\ prov # NoProv
    /\ edits = 0
    /\ credCall' = CliCall(h, IF flip
                              THEN [prov.data EXCEPT
                                      !.machine_hash = FlipFirst(prov.data.machine_hash)]
                              ELSE prov.data)
    /\ UNCHANGED <<machine, cfg, edits, prov>>
    /\ UNCHANGED <<clientVars, fmtVars, toolVars>>

CredNext ==
    \/ \E m \in Hosts, u \in Usernames, s \in Secrets, salt \in Salts :
          Provision(m, u, s, salt)
    \/ \E s \in {x \in Secrets : Len(x) = 1} : SetPassword(s)
    \/ \E k \in DOMAIN cfg : DropKey(k)
    \/ \E k \in EncKeys, cut \in BOOLEAN : Tamper(k, cut)
    \/ CallGetCredentials
    \/ CallDecryptPassword
    \/ \E h \in Hosts, flip \in BOOLEAN : CallCliDecrypt(h, flip)

(***************************************************************************)
(* encrypt_password.py, main(): lines 123-182.  A run ends with an exit    *)
(* status and with what it printed of the credential fragment.             *)
(***************************************************************************)
\* code points that str.strip() removes
IsBlank(c) == c \in {9, 10, 11, 12, 13, 32}
RECURSIVE StripText(_)
StripText(s) ==
    IF s # <<>> /\ IsBlank(Head(s)) THEN StripText(Tail(s))
    ELSE IF s # <<>> /\ IsBlank(s[Len(s)]) THEN StripText(SubSeq(s, 1, Len(s) - 1))
    ELSE s

\* sys.exit(1) before anything of the fragment was printed
Exit1 == [exit |-> 1, printed |-> <<>>]

\* MainVerified printing the fragment whatever the self-check answered
MainUnverified(username, password, data, check) ==
    [exit |-> 0, printed |-> <<Fragment(username, data)>>]

\* lines 156-182: the self-check, then the fragment; main() returns and
\* the interpreter exits with status 0
MainVerified(username, password, data, check) ==
    IF check.exc # "none" \/ check.val # password THEN Exit1
    ELSE [exit |-> 0, printed |-> <<Fragment(username, data)>>]

\* lines 138-154: the three prompts and encrypt_password
MainPrompted(username, password, password_confirm) ==
    username # <<>> /\ password # <<>> /\ password = password_confirm

\* main() run on host m with the answers to its prompts; decrypt_password
\* computes get_machine_id() again and finds the identity of host m2
RunMain(m, m2, typed, password, password_confirm, salt) ==
    /\ prov = NoProv
    /\ prov' = [host |-> m, host2 |-> m2, typed |-> typed, secret |-> password,
                confirm |-> password_confirm,
                data |-> encrypt_password(password, m, salt),
                check |-> cli_decrypt_password(encrypt_password(password, m, salt), m2),
                out |-> IF MainPrompted(StripText(typed), password, password_confirm)
                        THEN MainVerified(StripText(typed), password,
                                          encrypt_password(password, m, salt),
                                          cli_decrypt_password(
                                              encrypt_password(password, m, salt), m2))
                        ELSE Exit1]
    /\ UNCHANGED <<machine, cfg, edits, credCall>>
    /\ UNCHANGED <<clientVars, fmtVars, toolVars>>

\* what is typed at the prompts
TypedUsernames == {<<>>, <<32>>, <<117>>, <<32, 117, 32>>}
TypedSecrets == Secrets \cup {<<>>}

CliNext ==
    \E m \in Hosts, m2 \in Hosts, typed \in TypedUsernames, password \in TypedSecrets,
       password_confirm \in TypedSecrets, salt \in Salts :
        RunMain(m, m2, typed, password, password_confirm, salt)

(***************************************************************************)
(* src/utils/splunk_client.py: SplunkClient.  One step per remote call or  *)
(* sleep; what lies between two of them is part of the step before.        *)
(***************************************************************************)
NoRet == [exc |-> "pending", kind |-> "", val |-> 0]
NoPrev == [op |-> "none", force |-> FALSE, ret |-> NoRet]

\* a thread outside any call
IdleThread ==
    [op |-> "idle", pc |-> "idle", force |-> FALSE, site |-> 0,
     retry_count |-> 0, attempt |-> 0, last_error |-> "None", service |-> 0,
     tries |-> 0, establishments |-> 0, fails |-> 0, slept |-> 0, authTry |-> 0,
     sleptAtAuth |-> 0, probe |-> "none", slot0 |-> 0,
     timeout |-> 0, job |-> 0, elapsed |-> 0, timedOut |-> FALSE, cancels |-> 0,
     raised |-> "None", ret |-> NoRet, prev |-> NoPrev,
     outer |-> "none", unreachable |-> FALSE,
     closing |-> <<>>, attempted |-> {}, logoutFails |-> 0,
     slotEst |-> 0, writes |-> {}, probed |-> 0, decrypts |-> 0, accepting |-> FALSE,
     query |-> <<>>, submitted |-> <<>>, max_results |-> 0, results |-> <<>>,
     yielded |-> <<>>, fetches |-> 0, log |-> <<>>]

\* self._connections.get('main'), 0 for no entry
Slot == IF "main" \in DOMAIN connections THEN connections["main"] ELSE 0

ClientInit ==
    /\ connections = <<>>
    /\ live = {}
    /\ nsess = 0
    /\ stored = {}
    /\ tested = {}
    /\ th = [t \in {1} |-> IdleThread]

Set(t, r) == th' = [th EXCEPT ![t] = r]

\* what the remote service answers to a login or to apps.list()
RemoteOutcomes == {"ok", "http401", "http", "timeout", "error"}

\* an exception of class e is raised inside the try block of execute_query
Thrown(r, e) == [r EXCEPT !.pc = "ex_except", !.raised = e]

\* MethodCaught with no except clause: the exception leaves the method
MethodRaised(op, e, k) == [exc |-> e, kind |-> k, val |-> 0]

\* what the except clause of check_connection (lines 185-190), get_indexes
\* (lines 323-325) or get_sourcetypes (lines 360-362) returns
MethodCaught(op, e, k) ==
    IF op = "check"
    THEN [exc |-> "none", kind |-> "connection_data",
          val |-> [status |-> "error", error |-> <<e, k>>]]
    ELSE [exc |-> "none", kind |-> "list", val |-> <<>>]

\* an exception leaves get_connection (or _create_connection called alone):
\* the session could not be established.  execute_query called
\* get_connection inside its try block, line 214, and so did
\* check_connection, get_indexes and get_sourcetypes
Escapes(r, e, k) ==
    IF r.op = "execute" THEN [Thrown(r, e) EXCEPT !.unreachable = TRUE]
    ELSE IF r.op \in {"check", "indexes", "sourcetypes"}
    THEN [r EXCEPT !.pc = "done", !.unreachable = TRUE, !.ret = MethodCaught(r.op, e, k)]
    ELSE [r EXCEPT !.pc = "done", !.unreachable = TRUE,
                   !.ret = [exc |-> e, kind |-> k, val |-> 0]]

\* EnterGetConnection taking no notice of the cached session
EnterAlwaysNew(r, op, force) ==
    [r EXCEPT !.op = op, !.force = force, !.slot0 = Slot, !.pc = "cc_credentials",
              !.site = 1, !.retry_count = DefaultRetryCount]

\* get_connection(force_new) is entered: line 143
EnterGetConnection(r, op, force) ==
    [r EXCEPT !.op = op, !.force = force, !.slot0 = Slot,
              !.pc = IF force \/ "main" \notin DOMAIN connections
                     THEN "cc_credentials" ELSE "gc_probe",
              !.site = IF force \/ "main" \notin DOMAIN connections THEN 1 ELSE 0,
              !.retry_count = DefaultRetryCount]

\* a caller on thread t calls get_connection(force)
CallConnect(t, force) ==
    /\ th[t].pc = "idle"
    /\ Set(t, EnterGetConnection(th[t], "connect", force))
    /\ UNCHANGED <<connections, live, nsess, stored, tested>>
    /\ UNCHANGED <<credVars, fmtVars, toolVars>>

\* a caller on thread t calls get_connection(force) at a time when the
\* remote service does, or does not, accept logins
CallConnectWhile(t, force, accepting) ==
    /\ th[t].pc = "idle"
    /\ accepting => nsess < MaxSessions
    /\ Set(t, [EnterGetConnection(th[t], "connect", force) EXCEPT !.accepting = accepting])
    /\ UNCHANGED <<connections, live, nsess, stored, tested>>
    /\ UNCHANGED <<credVars, fmtVars, toolVars>>

\* _create_connection(retry_count) called on its own
CallCreate(t, retry_count) ==
    /\ th[t].pc = "idle"
    /\ Set(t, [th[t] EXCEPT !.op = "create", !.pc = "cc_credentials",
                             !.slot0 = Slot, !.retry_count = retry_count])
    /\ UNCHANGED <<connections, live, nsess, stored, tested>>
    /\ UNCHANGED <<credVars, fmtVars, toolVars>>

\* how many times get_credentials called decrypt_password
DecryptCalls(c) == Cardinality({i \in 1..Len(c.steps) : c.steps[i] = "decrypt_password"})

\* WithCredentials entering the retry loop whatever get_credentials did
WithCredentialsRetried(r, c) ==
    [r EXCEPT !.pc = "cc_attempt", !.attempt = 0, !.last_error = "None",
              !.fails = 0, !.slept = 0, !.establishments = @ + 1]

\* line 68 raised, or the loop of line 93 is about to start
WithCredentials(r, c) ==
    IF c.exc # "none" THEN Escapes(r, c.exc, c.kind)
    ELSE [r EXCEPT !.pc = "cc_attempt", !.attempt = 0, !.last_error = "None",
                   !.fails = 0, !.slept = 0, !.establishments = @ + 1]

\* _create_connection, lines 65-92: configuration, credentials, host name
CcCredentials(t) ==
    /\ th[t].pc = "cc_credentials"
    /\ Set(t, WithCredentials([th[t] EXCEPT
                                  !.slotEst = Slot,
                                  !.decrypts = @ + DecryptCalls(get_credentials(cfg, machine))],
                              get_credentials(cfg, machine)))
    /\ UNCHANGED <<connections, live, nsess, stored, tested>>
    /\ UNCHANGED <<credVars, fmtVars, toolVars>>

\* the for loop is left: lines 93 and 128
CcExhausted(t) ==
    /\ th[t].pc = "cc_attempt"
    /\ th[t].attempt >= th[t].retry_count
    /\ Set(t, Escapes(th[t], "ConnectionError", "exhausted"))
    /\ UNCHANGED <<connections, live, nsess, stored, tested>>
    /\ UNCHANGED <<credVars, fmtVars, toolVars>>

\* AttemptFailed taking an HTTP 401 for one more transient failure
AttemptFailedRetriesAuth(r, outcome) ==
    [r EXCEPT !.pc = "cc_backoff", !.fails = @ + 1, !.tries = r.tries + 1,
              !.last_error = "HTTPError",
              !.authTry = IF outcome = "http401" /\ @ = 0 THEN r.tries + 1 ELSE @,
              !.sleptAtAuth = IF outcome = "http401" /\ r.authTry = 0 THEN r.slept ELSE @]

\* the except clauses of the loop body, lines 106-119, and the step to the
\* backoff: an HTTP 401 raises, anything else is recorded and retried
AttemptFailed(r, outcome) ==
    IF outcome = "http401"
    THEN [Escapes(r, "ConnectionError", "auth") EXCEPT
             !.last_error = "HTTPError", !.authTry = r.tries + 1,
             !.sleptAtAuth = r.slept, !.tries = r.tries + 1]
    ELSE [r EXCEPT !.pc = "cc_backoff", !.fails = @ + 1, !.tries = r.tries + 1,
                   !.last_error = IF outcome = "http" THEN "HTTPError"
                                  ELSE IF outcome = "timeout" THEN "Connection timeout"
                                  ELSE "Exception"]

\* client.connect(**kwargs), line 98: the login
CcConnect(t, outcome) ==
    /\ th[t].pc = "cc_attempt"
    /\ th[t].attempt < th[t].retry_count
    /\ IF outcome = "ok"
       THEN /\ nsess < MaxSessions
            /\ nsess' = nsess + 1
            /\ live' = live \cup {nsess + 1}
            /\ Set(t, [th[t] EXCEPT !.pc = "cc_test", !.service = nsess + 1])
       ELSE /\ Set(t, AttemptFailed(th[t], outcome))
            /\ UNCHANGED <<live, nsess>>
    /\ UNCHANGED <<connections, stored, tested>>
    /\ UNCHANGED <<credVars, fmtVars, toolVars>>

\* the value _create_connection returns reaches its caller: line 104, then
\* the assignment of line 144 or 151 and what follows it
Established(r) ==
    [r EXCEPT !.tries = @ + 1,
              !.writes = IF r.op = "create" THEN @ ELSE @ \cup {r.service},
              !.pc = IF r.op = "create" THEN "done"
                     ELSE IF r.site = 1 THEN "gc_probe" ELSE "gc_return",
              !.ret = IF r.op = "create" THEN [exc |-> "none", kind |-> "", val |-> r.service]
                      ELSE r.ret]

\* SlotAfterTest assigning the session whatever its test answered
SlotAssignedUntested(r, outcome) ==
    IF r.op = "create" THEN connections ELSE [k \in {"main"} |-> r.service]

\* lines 101-104, then 144 or 151: the slot is assigned the value that
\* _create_connection returned, and it returns only after the test
SlotAfterTest(r, outcome) ==
    IF outcome = "ok" /\ r.op # "create" THEN [k \in {"main"} |-> r.service]
    ELSE connections

\* service.apps.list(), line 101: the test of the new session
CcTest(t, outcome) ==
    /\ th[t].pc = "cc_test"
    /\ Set(t, IF outcome = "ok" THEN Established(th[t])
               ELSE AttemptFailed(th[t], outcome))
    /\ connections' = SlotAfterTest(th[t], outcome)
    /\ stored' = IF "main" \in DOMAIN connections'
                  THEN stored \cup {connections'["main"]} ELSE stored
    /\ tested' = IF outcome = "ok" THEN tested \cup {th[t].service} ELSE tested
    /\ UNCHANGED <<live, nsess>>
    /\ UNCHANGED <<credVars, fmtVars, toolVars>>

RECURSIVE Pow2(_)
Pow2(n) == IF n = 0 THEN 1 ELSE 2 * Pow2(n - 1)

\* Backoff sleeping after every failed attempt, the last one too
BackoffAfterEvery(r) ==
    [r EXCEPT !.pc = "cc_attempt", !.attempt = @ + 1, !.slept = @ + Pow2(r.attempt)]

\* lines 122-125: sleep 2 ** attempt unless this was the last attempt
Backoff(r) ==
    [r EXCEPT !.pc = "cc_attempt", !.attempt = @ + 1,
              !.slept = IF r.attempt < r.retry_count - 1 THEN @ + Pow2(r.attempt) ELSE @]

CcBackoff(t) ==
    /\ th[t].pc = "cc_backoff"
    /\ Set(t, Backoff(th[t]))
    /\ UNCHANGED <<connections, live, nsess, stored, tested>>
    /\ UNCHANGED <<credVars, fmtVars, toolVars>>

\* ProbeRaised with no except clause around the probe
ProbeRaisedPropagates(r) ==
    [r EXCEPT !.probe = "dead", !.probed = Slot, !.pc = "done",
              !.ret = [exc |-> "Exception", kind |-> "probe", val |-> 0]]

\* ProbeRaised giving up on a session that expired
ProbeRaisedGivesUp(r) ==
    [r EXCEPT !.probe = "dead", !.probed = Slot, !.pc = "done", !.unreachable = TRUE,
              !.ret = [exc |-> "ConnectionError", kind |-> "expired", val |-> 0]]

\* lines 149-151: the probe raised; the except clause goes on to
\* _create_connection
ProbeRaised(r) ==
    [r EXCEPT !.pc = "cc_credentials", !.site = 2, !.probe = "dead", !.probed = Slot]

\* lines 147-151: the liveness probe of the session in the slot
GcProbe(t, alive) ==
    /\ th[t].pc = "gc_probe"
    /\ Set(t, IF alive /\ Slot # 0
               THEN [th[t] EXCEPT !.pc = "gc_return", !.probe = "alive", !.probed = Slot]
               ELSE ProbeRaised(th[t]))
    /\ UNCHANGED <<connections, live, nsess, stored, tested>>
    /\ UNCHANGED <<credVars, fmtVars, toolVars>>

\* line 341: the query of get_sourcetypes, cut after its command
MetadataQuery == <<"|", " ", "m", "e", "t", "a", "d", "a", "t", "a">>

\* AfterConnection handing back the session this call logged in itself
AfterConnectionOwnSession(r) ==
    [r EXCEPT !.pc = "done", !.ret = [exc |-> "none", kind |-> "", val |-> r.service]]

\* get_connection returned the session to the method that called it: in
\* execute_query the locals of get_connection are gone when line 215 is
\* reached; check_connection goes on to line 166 and get_indexes to line
\* 321; get_sourcetypes calls execute_query (line 347), which calls
\* get_connection again
AfterConnection(r) ==
    IF r.op = "execute"
    THEN [IdleThread EXCEPT !.op = "execute", !.pc = "ex_submit", !.service = Slot,
                            !.query = r.query, !.max_results = r.max_results,
                            !.timeout = r.timeout, !.prev = r.prev, !.outer = r.outer]
    ELSE IF r.op = "check" THEN [r EXCEPT !.pc = "ck_info", !.service = Slot]
    ELSE IF r.op = "indexes" THEN [r EXCEPT !.pc = "ix_list", !.service = Slot]
    ELSE IF r.op = "sourcetypes"
    THEN EnterGetConnection([IdleThread EXCEPT !.outer = "sourcetypes",
                                               !.query = MetadataQuery,
                                               !.max_results = 1000,
                                               !.timeout = r.timeout, !.prev = r.prev],
                            "execute", FALSE)
    ELSE [r EXCEPT !.pc = "done", !.ret = [exc |-> "none", kind |-> "", val |-> Slot]]

\* line 153: return self._connections['main']
GcReturn(t) ==
    /\ th[t].pc = "gc_return"
    /\ Set(t, IF Slot = 0 THEN Escapes(th[t], "KeyError", "main")
               ELSE AfterConnection(th[t]))
    /\ UNCHANGED <<connections, live, nsess, stored, tested>>
    /\ UNCHANGED <<credVars, fmtVars, toolVars>>

\* the call is over: its outcome is all the caller keeps
Finish(t) ==
    /\ th[t].pc = "done"
    /\ Set(t, [IdleThread EXCEPT
                  !.prev = [op |-> th[t].op, force |-> th[t].force, ret |-> th[t].ret]])
    /\ UNCHANGED <<connections, live, nsess, stored, tested>>
    /\ UNCHANGED <<credVars, fmtVars, toolVars>>

(***************************************************************************)
(* close_all_connections, lines 364-373.                                   *)
(***************************************************************************)
\* self._connections.items(): the sessions of the cache, in dict order
CachedSessions == IF "main" \in DOMAIN connections THEN <<connections["main"]>> ELSE <<>>

\* close_all_connections() is entered: the loop of line 366 starts, or with
\* an empty cache line 373 is reached at once
CallCloseAll(t) ==
    /\ th[t].pc = "idle"
    /\ Set(t, [th[t] EXCEPT !.op = "close", !.slot0 = Slot, !.closing = CachedSessions,
                             !.pc = IF CachedSessions = <<>> THEN "done" ELSE "cl_logout",
                             !.ret = IF CachedSessions = <<>>
                                     THEN [exc |-> "none", kind |-> "", val |-> 0]
                                     ELSE NoRet])
    /\ connections' = IF CachedSessions = <<>> THEN <<>> ELSE connections
    /\ UNCHANGED <<live, nsess, stored, tested>>
    /\ UNCHANGED <<credVars, fmtVars, toolVars>>

\* the loop goes to its next session; after the last one line 373 clears the
\* cache and the method returns None
NextSession(r) ==
    [r EXCEPT !.closing = Tail(@), !.attempted = @ \cup {Head(r.closing)},
              !.pc = IF Len(r.closing) = 1 THEN "done" ELSE "cl_logout",
              !.ret = IF Len(r.closing) = 1
                      THEN [exc |-> "none", kind |-> "", val |-> 0] ELSE @]

\* a logout that raises ends close_all_connections with its exception
LogoutRaisedPropagates(r) ==
    [r EXCEPT !.attempted = @ \cup {Head(r.closing)}, !.logoutFails = @ + 1,
              !.pc = "done", !.ret = [exc |-> "Exception", kind |-> "logout", val |-> 0]]

\* lines 370-371: the exception of service.logout() is logged as a warning
LogoutRaised(r) == [NextSession(r) EXCEPT !.logoutFails = @ + 1]

\* lines 367-373: service.logout() on the next session of the cache
ClLogout(t, outcome) ==
    /\ th[t].pc = "cl_logout"
    /\ Set(t, IF outcome = "ok" THEN NextSession(th[t]) ELSE LogoutRaised(th[t]))
    /\ live' = IF outcome = "ok" THEN live \ {Head(th[t].closing)} ELSE live
    /\ connections' = IF th'[t].pc = "done" /\ th'[t].ret.exc = "none"
                       THEN <<>> ELSE connections
    /\ UNCHANGED <<nsess, stored, tested>>
    /\ UNCHANGED <<credVars, fmtVars, toolVars>>

(***************************************************************************)
(* Strings and records.  A string is the sequence of its characters; a     *)
(* record (a dict) is the sequence of its items in insertion order.        *)
(***************************************************************************)
F_time == <<"_", "t", "i", "m", "e">>
F_host == <<"h", "o", "s", "t">>
F_source == <<"s", "o", "u", "r", "c", "e">>
F_sourcetype == <<"s", "o", "u", "r", "c", "e", "t", "y", "p", "e">>
F_message == <<"m", "e", "s", "s", "a", "g", "e">>
F_raw == <<"_", "r", "a", "w">>
F_cd == <<"_", "c", "d">>
F_user == <<"u", "s", "e", "r">>

\* str.startswith
StartsWith(s, prefix) ==
    Len(s) >= Len(prefix) /\ SubSeq(s, 1, Len(prefix)) = prefix

\* field.startswith('_')
IsInternal(field) == StartsWith(field, <<"_">>)

Str(n) == [kind |-> "str", text |-> n]
NotStr(n) == [kind |-> "other", text |-> n]
\* str(value)
PyStr(value) == value.text

Item(field, value) == [field |-> field, value |-> value]

\* results[:n]
Take(seq, n) == SubSeq(seq, 1, IF n < Len(seq) THEN n ELSE Len(seq))

\* str.strip(): the whitespace at both ends is removed
IsSpace(c) == c \in {" ", "\t", "\n"}
RECURSIVE LStrip(_)
LStrip(s) == IF s # <<>> /\ IsSpace(Head(s)) THEN LStrip(Tail(s)) ELSE s
RECURSIVE RStrip(_)
RStrip(s) == IF s # <<>> /\ IsSpace(s[Len(s)]) THEN RStrip(SubSeq(s, 1, Len(s) - 1)) ELSE s
Strip(s) == RStrip(LStrip(s))

K_search == <<"s", "e", "a", "r", "c", "h">>
K_pipe == <<"|">>
K_index == <<"i", "n", "d", "e", "x">>
\* line 228: ['search', '|', 'index']
GeneratingCommands == <<K_search, K_pipe, K_index>>

\* any(s.startswith(cmd) for cmd in [...])
BeginsGenerating(s) ==
    \E i \in 1..Len(GeneratingCommands) : StartsWith(s, GeneratingCommands[i])

\* Normalized testing the query as it came, not stripped
NormalizedUnstripped(query) ==
    IF BeginsGenerating(query) THEN query ELSE K_search \o <<" ">> \o query

\* lines 227-229: query = f"search {query}" unless the stripped query
\* starts with a generating command
Normalized(query) ==
    IF BeginsGenerating(Strip(query)) THEN query ELSE K_search \o <<" ">> \o query


(***************************************************************************)
(* execute_query, lines 192-310.  Time is counted in ticks of half a       *)
(* second, the length of the sleep of line 250.                            *)
(***************************************************************************)
MaxTimeout == 1
TicksPerSecond == 2

\* what a call on the Job or on the jobs collection raises, if it raises;
\* socket.timeout is TimeoutError
RemoteErrors == {"HTTPError", "TimeoutError", "Exception"}

\* execute_query(query, max_results=max_results, timeout=timeout) is
\* entered: line 214
CallExecute(t, query, timeout, max_results) ==
    /\ th[t].pc = "idle"
    /\ Set(t, [EnterGetConnection(th[t], "execute", FALSE) EXCEPT
                  !.query = query, !.timeout = timeout, !.max_results = max_results])
    /\ UNCHANGED <<connections, live, nsess, stored, tested>>
    /\ UNCHANGED <<credVars, fmtVars, toolVars>>

\* lines 215-245: defaults, the query, service.jobs.create, start_time
ExSubmit(t, outcome) ==
    /\ th[t].pc = "ex_submit"
    /\ Set(t, [(IF outcome = "ok"
                 THEN [th[t] EXCEPT !.pc = "ex_poll", !.job = @ + 1, !.elapsed = 0]
                 ELSE Thrown(th[t], outcome))
                EXCEPT !.submitted = Normalized(th[t].query), !.log = Append(@, "create")])
    /\ UNCHANGED <<connections, live, nsess, stored, tested>>
    /\ UNCHANGED <<credVars, fmtVars, toolVars>>

\* lines 246-250 after job.is_done() answered False, d ticks after the
\* check before: the clock is compared with the timeout, then the sleep
NotDone(r, d) ==
    IF r.elapsed + d > TicksPerSecond * r.timeout
    THEN [r EXCEPT !.pc = "ex_cancel", !.elapsed = @ + d, !.timedOut = TRUE]
    ELSE [r EXCEPT !.elapsed = @ + d + 1]

\* JobDone going for the results at once
JobDoneSkipsStatistics(r) == [r EXCEPT !.pc = "ex_results", !.log = Append(@, "done")]

\* job.is_done() answered True: the loop of line 246 is left for line 253
JobDone(r) == [r EXCEPT !.pc = "ex_stats", !.log = Append(@, "done")]

\* one round of the loop of line 246
ExPoll(t, outcome, d) ==
    /\ th[t].pc = "ex_poll"
    /\ Set(t, IF outcome = "done" THEN JobDone(th[t])
               ELSE IF outcome = "running" THEN NotDone(th[t], d)
               ELSE Thrown(th[t], outcome))
    /\ UNCHANGED <<connections, live, nsess, stored, tested>>
    /\ UNCHANGED <<credVars, fmtVars, toolVars>>

\* lines 248-249: job.cancel(), then raise TimeoutError
ExCancel(t, outcome) ==
    /\ th[t].pc = "ex_cancel"
    /\ Set(t, [(IF outcome = "ok"
                 THEN [Thrown(th[t], "TimeoutError") EXCEPT !.cancels = @ + 1]
                 ELSE Thrown(th[t], outcome))
                EXCEPT !.log = Append(@, "cancel")])
    /\ UNCHANGED <<connections, live, nsess, stored, tested>>
    /\ UNCHANGED <<credVars, fmtVars, toolVars>>

\* lines 253-265: the statistics are read off the Job and converted
ExStats(t, outcome) ==
    /\ th[t].pc = "ex_stats"
    /\ Set(t, [(IF outcome = "ok" THEN [th[t] EXCEPT !.pc = "ex_results"]
                 ELSE Thrown(th[t], outcome))
                EXCEPT !.log = Append(@, "stats")])
    /\ UNCHANGED <<connections, live, nsess, stored, tested>>
    /\ UNCHANGED <<credVars, fmtVars, toolVars>>

\* job.results(count=max_results): the first count records of the Job
Fetched(yielded, count) == Take(yielded, count)

\* lines 268-269: job.results(...), read(), json.loads, on a Job that holds
\* the records yielded
ExResults(t, outcome, yielded) ==
    /\ th[t].pc = "ex_results"
    /\ Set(t, [(IF outcome = "ok"
                 THEN [th[t] EXCEPT !.pc = "ex_cleanup",
                                    !.results = Fetched(yielded, th[t].max_results),
                                    !.fetches = @ + 1]
                 ELSE Thrown(th[t], outcome))
                EXCEPT !.log = Append(@, "results"), !.yielded = yielded])
    /\ UNCHANGED <<connections, live, nsess, stored, tested>>
    /\ UNCHANGED <<credVars, fmtVars, toolVars>>

Envelope(v) == [exc |-> "none", kind |-> "envelope", val |-> v]
ErrorEnvelope(error_type) == Envelope([status |-> "error", error_type |-> error_type])

\* lines 272-285: job.cancel(), then the success envelope
ExCleanup(t, outcome) ==
    /\ th[t].pc = "ex_cleanup"
    /\ Set(t, [(IF outcome = "ok"
                 THEN [th[t] EXCEPT !.pc = "done", !.cancels = @ + 1,
                                    !.ret = Envelope([status |-> "success",
                                                      query |-> th[t].submitted,
                                                      results |-> th[t].results])]
                 ELSE Thrown(th[t], outcome))
                EXCEPT !.log = Append(@, "cancel")])
    /\ UNCHANGED <<connections, live, nsess, stored, tested>>
    /\ UNCHANGED <<credVars, fmtVars, toolVars>>

\* the except clauses of execute_query, lines 287-310, in their order; the
\* second reads e.message, which the HTTPError object may not have
Handler(raised, has_message) ==
    IF raised = "TimeoutError" THEN ErrorEnvelope("timeout")
    ELSE IF raised = "HTTPError"
    THEN IF has_message THEN ErrorEnvelope("http_error")
         ELSE [exc |-> "AttributeError", kind |-> "message", val |-> 0]
    ELSE ErrorEnvelope("general_error")

ExExcept(t, has_message) ==
    /\ th[t].pc = "ex_except"
    /\ Set(t, [th[t] EXCEPT !.pc = "done", !.ret = Handler(th[t].raised, has_message)])
    /\ UNCHANGED <<connections, live, nsess, stored, tested>>
    /\ UNCHANGED <<credVars, fmtVars, toolVars>>

Threads == DOMAIN th

CreateNext ==
    \/ \E t \in Threads, r \in 0..MaxRetry : CallCreate(t, r)
    \/ \E t \in Threads : CcCredentials(t)
    \/ \E t \in Threads : CcExhausted(t)
    \/ \E t \in Threads, o \in RemoteOutcomes : CcConnect(t, o)
    \/ \E t \in Threads, o \in RemoteOutcomes : CcTest(t, o)
    \/ \E t \in Threads : CcBackoff(t)
    \/ \E t \in Threads : Finish(t)

\* the configurations the server runs with: a plain password, nothing but
\* a user name, a secret provisioned here or elsewhere, one without its salt
ProvisionedHere == Fragment(<<117>>, encrypt_password(<<233>>, 1, [i \in 1..SaltLen |-> 0]))
ProvisionedElsewhere == Fragment(<<117>>, encrypt_password(<<233>>, 2, [i \in 1..SaltLen |-> 0]))
ClientConfigs ==
    {[username |-> <<117>>, password |-> <<233>>],
     [username |-> <<117>>],
     ProvisionedHere,
     ProvisionedElsewhere,
     Without(ProvisionedHere, "password_salt")}

ServerCredInit ==
    /\ machine = 1
    /\ cfg \in ClientConfigs
    /\ edits = 0
    /\ prov = NoProv
    /\ credCall = NoCall

ExTimeouts == 0..MaxTimeout
\* the query, the cap and the records of the Job in the runs of the client
ClientQuery == K_index \o <<"=", "m">>
ClientMaxResults == 1
ClientYield ==
    <<<<Item(F_host, Str(1))>>, <<Item(F_host, Str(2))>>, <<Item(F_host, Str(3))>>>>
PollOutcomes == {"done", "running"} \cup RemoteErrors
CallOutcomes == {"ok"} \cup RemoteErrors

Next ==
    \/ \E t \in Threads, force \in BOOLEAN : CallConnect(t, force)
    \/ \E t \in Threads, timeout \in ExTimeouts :
            CallExecute(t, ClientQuery, timeout, ClientMaxResults)
    \/ \E t \in Threads : CcCredentials(t)
    \/ \E t \in Threads : CcExhausted(t)
    \/ \E t \in Threads, o \in RemoteOutcomes : CcConnect(t, o)
    \/ \E t \in Threads, o \in RemoteOutcomes : CcTest(t, o)
    \/ \E t \in Threads : CcBackoff(t)
    \/ \E t \in Threads, alive \in BOOLEAN : GcProbe(t, alive)
    \/ \E t \in Threads : GcReturn(t)
    \/ \E t \in Threads, o \in CallOutcomes : ExSubmit(t, o)
    \/ \E t \in Threads, o \in PollOutcomes, d \in 0..1 : ExPoll(t, o, d)
    \/ \E t \in Threads, o \in CallOutcomes : ExCancel(t, o)
    \/ \E t \in Threads, o \in CallOutcomes : ExStats(t, o)
    \/ \E t \in Threads, o \in CallOutcomes : ExResults(t, o, ClientYield)
    \/ \E t \in Threads, o \in CallOutcomes : ExCleanup(t, o)
    \/ \E t \in Threads, has_message \in BOOLEAN : ExExcept(t, has_message)
    \/ \E t \in Threads : CallCloseAll(t)
    \/ \E t \in Threads, o \in CallOutcomes : ClLogout(t, o)
    \/ \E t \in Threads : Finish(t)

\* no formatter call has been made
NoFmt == [op |-> "none"]
FmtInit == fmt = NoFmt

\* call_tool has not been invoked
NoSettings == [page_size |-> 0, include_raw_events |-> FALSE]
NoTool == [name |-> "none", arguments |-> <<>>, config |-> "ok", pc |-> "idle",
           settings |-> NoSettings, envelope |-> NoRet,
           unreachable |-> FALSE, raised |-> "none", res |-> NoRet]
ToolIdle == tool = NoTool

Init == ServerCredInit /\ ClientInit /\ FmtInit /\ ToolIdle
Spec == Init /\ [][Next]_vars

CreateInit == ServerCredInit /\ ClientInit /\ FmtInit /\ ToolIdle
SpecCreate == CreateInit /\ [][CreateNext]_vars

VaultInit == CredInit /\ ClientInit /\ FmtInit /\ ToolIdle
SpecCred == VaultInit /\ [][CredNext]_vars

CliInit == CredInit /\ ClientInit /\ FmtInit /\ ToolIdle
SpecCli == CliInit /\ [][CliNext]_vars

(***************************************************************************)
(* Claims about the credential vault, checked under SpecCred.              *)
(***************************************************************************)
ManagerCall == credCall.op \in {"get_credentials", "decrypt_password"}
CredentialKinds == {"missing_credentials", "machine_mismatch", "decryption_failed"}

\* the identity tag a call was given differs from the tag of the host it ran on
TagDiffers ==
    \/ ~Has(credCall.arg, "machine_hash")
    \/ credCall.arg["machine_hash"] # machine_hash_of(credCall.host)

\* get_credentials reached its call of decrypt_password
ReachedDecrypt ==
    /\ credCall.op = "get_credentials"
    /\ {"username", "password_encrypted", "password_salt"} \subseteq DOMAIN credCall.arg

\* C8: a decrypt whose identity tag differs from the tag of the current
\* host (another host's secret, a changed tag, no tag) fails with the
\* machine-mismatch error before any decoding, key derivation or decryption.
C8_HostBinding ==
    /\ (credCall.op \in {"decrypt_password", "cli_decrypt_password"} /\ TagDiffers)
          => /\ credCall.res.exc = "ValueError"
             /\ credCall.res.kind = "machine_mismatch"
             /\ credCall.res.steps = <<>>
    /\ (ReachedDecrypt /\ TagDiffers)
          => /\ credCall.res.exc = "ValueError"
             /\ credCall.res.kind = "machine_mismatch"
             /\ credCall.res.steps = <<"decrypt_password">>

\* a secret provisioned on another host is decrypted here
C8_Witness ==
    /\ credCall.op = "decrypt_password"
    /\ prov # NoProv /\ prov.host # machine
    /\ credCall.arg = Restrict(Fragment(<<>>, prov.data), EncKeys)
    /\ credCall.res.kind = "machine_mismatch"

\* the call was given exactly what the provisioning script printed
GivenProvisioned ==
    /\ prov # NoProv
    /\ ManagerCall
    /\ Restrict(credCall.arg, EncKeys) = Restrict(Fragment(<<>>, prov.data), EncKeys)
    /\ credCall.op = "get_credentials" => Has(credCall.arg, "username")

C10_OnlyCredentialErrors ==
    (ManagerCall /\ credCall.res.exc # "none")
      => /\ credCall.res.exc = "ValueError"
         /\ credCall.res.kind \in CredentialKinds
         /\ credCall.res.kind = "decryption_failed" => ~TagDiffers

(***************************************************************************)
(* Claims about session establishment.                                     *)
(***************************************************************************)
RECURSIVE SumPow2(_)
\* the sum of 2^k for k in 0..n
SumPow2(n) == IF n < 0 THEN 0 ELSE Pow2(n) + SumPow2(n - 1)

\* thread t's call of _create_connection(R) is over after transient
\* failures only
CreateOver(t) ==
    /\ th[t].op = "create" /\ th[t].pc = "done"
    /\ th[t].establishments = 1
    /\ th[t].authTry = 0

\* C1: an establishment with retry_count R whose attempts failed transiently
\* N times before the remote service would accept one succeeds iff N < R:
\* it succeeds only after fewer than R failures and gives up only after R.
\* Either way it slept 2^0 + ... + 2^(attempts-2) seconds in total.
C1_RetryBound ==
    \A t \in Threads :
        CreateOver(t) =>
            /\ th[t].ret.exc = "none"
                  => th[t].fails < th[t].retry_count /\ th[t].tries = th[t].fails + 1
            /\ th[t].ret.exc # "none"
                  => /\ th[t].ret.exc = "ConnectionError" /\ th[t].ret.kind = "exhausted"
                     /\ th[t].fails = th[t].retry_count /\ th[t].tries = th[t].fails
            /\ th[t].slept = SumPow2(th[t].tries - 2)

\* an establishment with the greatest retry_count succeeded at its last
\* attempt, after every backoff
C1_Witness ==
    \E t \in Threads :
        /\ CreateOver(t) /\ th[t].ret.exc = "none"
        /\ th[t].retry_count = MaxRetry /\ th[t].fails = MaxRetry - 1
        /\ th[t].slept = SumPow2(MaxRetry - 2)

\* C2: once an attempt of a connect() call was rejected with HTTP 401 the
\* call is over with the terminal ConnectionError "Authentication failed":
\* that attempt stays its last one and no second is slept after it, so a
\* rejection of the first attempt leaves exactly one attempt.
C2_AuthShortCircuit ==
    \A t \in Threads :
        (th[t].op = "connect" /\ th[t].authTry > 0) =>
            /\ th[t].pc = "done"
            /\ th[t].ret.exc = "ConnectionError" /\ th[t].ret.kind = "auth"
            /\ th[t].tries = th[t].authTry
            /\ th[t].slept = th[t].sleptAtAuth
            /\ th[t].authTry = 1 => th[t].tries = 1

\* a connect() call whose first attempt was rejected with HTTP 401
C2_Witness ==
    \E t \in Threads :
        /\ th[t].op = "connect" /\ th[t].authTry = 1
        /\ th[t].pc = "done" /\ th[t].tries = 1

\* C3: a connect() call makes at most retry_count = 3 establishment
\* attempts, whatever the force flag, the cache and the probe's outcome.
C3_AtMostRetryCount ==
    \A t \in Threads :
        th[t].op = "connect" => th[t].tries <= DefaultRetryCount

\* thread t's connect(force=false) is over, right after a connect(force=false)
\* that returned a session, and found the cached session healthy
SecondConnectOver(t) ==
    /\ th[t].op = "connect" /\ th[t].pc = "done" /\ ~th[t].force
    /\ th[t].prev.op = "connect" /\ ~th[t].prev.force
    /\ th[t].prev.ret.exc = "none"
    /\ th[t].probe = "alive"

\* C4: the second of two consecutive connect(force=false) calls, the cached
\* session healthy, returns the session the first returned, makes no
\* establishment attempt and leaves the cache slot as it was.
C4_IdempotentReuse ==
    \A t \in Threads :
        SecondConnectOver(t) =>
            /\ th[t].ret.exc = "none"
            /\ th[t].ret.val = th[t].prev.ret.val
            /\ th[t].tries = 0 /\ th[t].establishments = 0
            /\ Slot = th[t].slot0 /\ Slot = th[t].ret.val

\* the second call probed the cached session and returned it
C4_Witness ==
    \E t \in Threads :
        /\ SecondConnectOver(t) /\ th[t].slot0 # 0
        /\ th[t].ret.exc = "none" /\ th[t].ret.val = th[t].prev.ret.val

(***************************************************************************)
(* Claims about execute_query.                                             *)
(***************************************************************************)
ExecuteOver(t) == th[t].op = "execute" /\ th[t].pc = "done"
ErrorTypes == {"timeout", "http_error", "general_error"}
IsEnvelope(ret) ==
    /\ ret.exc = "none"
    /\ \/ ret.val.status = "success"
       \/ \E e \in ErrorTypes : ret.val = [status |-> "error", error_type |-> e]

\* C5: an execute whose Job was still not done when the elapsed time
\* exceeded the timeout returns the error envelope classified timeout and
\* has cancelled the Job exactly once.
C5_TimeoutCancelsOnce ==
    \A t \in Threads :
        (ExecuteOver(t) /\ th[t].timedOut) =>
            /\ th[t].ret = ErrorEnvelope("timeout")
            /\ th[t].cancels = 1

\* C6: when execute returns, the Job it submitted has been cancelled.
C6_JobReleased ==
    \A t \in Threads :
        (ExecuteOver(t) /\ th[t].job # 0) => th[t].cancels >= 1

\* C7: execute_query ends by returning an envelope, success or an error
\* classified timeout, http_error or general_error; no exception leaves it.
C7_NeverRaises ==
    \A t \in Threads : ExecuteOver(t) => IsEnvelope(th[t].ret)

(***************************************************************************)
(* Claims about the path get_credentials takes, checked under SpecCred.    *)
(***************************************************************************)
Contains(steps, x) == \E i \in 1..Len(steps) : steps[i] = x

\* C11: a get_credentials call takes exactly one path: with an encrypted
\* secret in the configuration it calls decrypt_password and neither reads
\* the plain password nor warns; else with a plain password it returns that
\* password and warns; else it fails with the missing-credentials error.
C11_OnePath ==
    (credCall.op = "get_credentials" /\ Has(credCall.arg, "username")) =>
        IF Has(credCall.arg, "password_encrypted")
        THEN /\ Len(credCall.res.steps) > 0
             /\ credCall.res.steps[1] = "decrypt_password"
             /\ ~Contains(credCall.res.steps, "read_password")
             /\ ~Contains(credCall.res.steps, "warn_plaintext")
        ELSE IF Has(credCall.arg, "password")
        THEN /\ credCall.res.exc = "none"
             /\ credCall.res.val.password = credCall.arg["password"]
             /\ credCall.res.steps = <<"read_password", "warn_plaintext">>
        ELSE /\ credCall.res.exc = "ValueError"
             /\ credCall.res.kind = "missing_credentials"
             /\ credCall.res.steps = <<>>

(***************************************************************************)
(* Claims about the sessions of the process, checked under Spec.           *)
(***************************************************************************)
\* the sessions that were put in the cache and have not been logged out
LiveSessions == stored \cap live

\* C20: at every point the process has at most one live session, the one
\* in the cache slot: a session that was replaced in the slot is no longer
\* live.
C20_OneLiveSession ==
    /\ Cardinality(LiveSessions) <= 1
    /\ \A s \in LiveSessions : s = Slot

(***************************************************************************)
(* src/utils/response_formatter.py.  A field name is the sequence of its   *)
(* characters; a record (a dict) is the sequence of its items in insertion *)
(* order, each [field, value]; a value is a str or not a str (a number, a  *)
(* list), and text is what str(value) returns, as a number standing for    *)
(* that text.  A JSON payload is modelled as the mapping that is dumped.   *)
(***************************************************************************)
\* field in d
HasField(d, field) == \E i \in 1..Len(d) : d[i].field = field

\* d[field] = value: an old key keeps its place, a new one goes last
Put(d, field, value) ==
    IF HasField(d, field)
    THEN [i \in 1..Len(d) |-> IF d[i].field = field THEN Item(field, value) ELSE d[i]]
    ELSE Append(d, Item(field, value))

\* line 244
PriorityFields == <<F_time, F_host, F_source, F_sourcetype, F_message, F_raw>>

\* result[field]
ValueOf(d, field) == d[CHOOSE i \in 1..Len(d) : d[i].field = field].value

RECURSIVE AddPriority(_, _, _)
\* lines 246-248, from priority field i on
AddPriority(cleaned, result, i) ==
    IF i > Len(PriorityFields) THEN cleaned
    ELSE AddPriority(IF HasField(result, PriorityFields[i])
                     THEN Put(cleaned, PriorityFields[i], ValueOf(result, PriorityFields[i]))
                     ELSE cleaned,
                     result, i + 1)

\* AddVisible adding nothing: only the priority fields are kept
AddVisibleNone(cleaned, result, i) == cleaned

RECURSIVE AddVisible(_, _, _)
\* lines 251-253, from item i of the record on
AddVisible(cleaned, result, i) ==
    IF i > Len(result) THEN cleaned
    ELSE AddVisible(IF ~IsInternal(result[i].field) /\ ~HasField(cleaned, result[i].field)
                    THEN Put(cleaned, result[i].field, result[i].value)
                    ELSE cleaned,
                    result, i + 1)

RECURSIVE AddInternal(_, _, _)
\* lines 257-259, from item i of the record on
AddInternal(cleaned, result, i) ==
    IF i > Len(result) THEN cleaned
    ELSE AddInternal(IF IsInternal(result[i].field) /\ result[i].field \notin {F_time, F_raw}
                     THEN Put(cleaned, result[i].field, result[i].value)
                     ELSE cleaned,
                     result, i + 1)

\* the internal fields, whatever the record has
WithInternalAlways(cleaned, result) == AddInternal(cleaned, result, 1)

\* lines 255-259: the internal fields, if there is no raw message
WithInternal(cleaned, result) ==
    IF ~HasField(cleaned, F_raw) /\ ~HasField(cleaned, F_message)
    THEN AddInternal(cleaned, result, 1)
    ELSE cleaned

\* the body of the loop of _clean_results, lines 241-261
CleanRecord(result) ==
    WithInternal(AddVisible(AddPriority(<<>>, result, 1), result, 1), result)

\* _clean_results(results)
clean_results(results) == [i \in 1..Len(results) |-> CleanRecord(results[i])]

\* floor(total_results / page_size) + 1 pages
calculate_pagination_floor(total_results, page_size) ==
    IF page_size = 0 THEN Raise("ZeroDivisionError", "")
    ELSE Ok([total_results |-> total_results, page_size |-> page_size,
             total_pages |-> (total_results \div page_size) + 1,
             requires_pagination |-> (total_results \div page_size) + 1 > 1])

\* _calculate_pagination(total_results, page_size)
calculate_pagination(total_results, page_size) ==
    IF page_size = 0 THEN Raise("ZeroDivisionError", "")
    ELSE Ok([total_results |-> total_results, page_size |-> page_size,
             total_pages |-> (total_results + page_size - 1) \div page_size,
             requires_pagination |-> (total_results + page_size - 1) \div page_size > 1])

\* line 162: the records the field summary looks at
SampleSize == 100
\* lines 177 and 186: the samples and the top values kept per field
SampleCap == 5
\* line 111: the records of a preview
PreviewCap == 100

\* lines 169-173: field_summary[field], its samples and its Counter
NewEntry(field) == [field |-> field, sample_values |-> <<>>, value_count |-> <<>>]

\* the place of field in the summary, 0 if it has none
EntryIndex(summary, field) ==
    IF \E k \in 1..Len(summary) : summary[k].field = field
    THEN CHOOSE k \in 1..Len(summary) : summary[k].field = field
    ELSE 0

\* value in sample_values: a sample is a str, and equals a value that is
\* the same str
InSamples(value, sample_values) ==
    \E i \in 1..Len(sample_values) :
        value.kind = "str" /\ value.text = sample_values[i]

\* lines 176-178
Sampled(sample_values, value) ==
    IF ~InSamples(value, sample_values) /\ Len(sample_values) < SampleCap
    THEN Append(sample_values, PyStr(value))
    ELSE sample_values

\* the place of text among the keys of the Counter, 0 if it is not a key
CountIndex(value_count, text) ==
    IF \E i \in 1..Len(value_count) : value_count[i].value = text
    THEN CHOOSE i \in 1..Len(value_count) : value_count[i].value = text
    ELSE 0

\* line 181: Counter[text] += 1, a new key goes last
Counted(value_count, text) ==
    IF CountIndex(value_count, text) = 0
    THEN Append(value_count, [value |-> text, count |-> 1])
    ELSE [value_count EXCEPT ![CountIndex(value_count, text)].count = @ + 1]

\* lines 175-181 for entry k of the summary
ObserveAt(summary, k, value) ==
    [summary EXCEPT ![k] = [field |-> @.field,
                            sample_values |-> Sampled(@.sample_values, value),
                            value_count |-> Counted(@.value_count, PyStr(value))]]

\* lines 169-181 for one item of a record
Observed(summary, field, value) ==
    IF EntryIndex(summary, field) = 0
    THEN ObserveAt(Append(summary, NewEntry(field)), Len(summary) + 1, value)
    ELSE ObserveAt(summary, EntryIndex(summary, field), value)

RECURSIVE ScanRecord(_, _, _)
\* lines 165-181: the items of one record from item j on
ScanRecord(summary, result, j) ==
    IF j > Len(result) THEN summary
    ELSE ScanRecord(IF IsInternal(result[j].field) THEN summary
                    ELSE Observed(summary, result[j].field, result[j].value),
                    result, j + 1)

RECURSIVE ScanResults(_, _, _, _)
\* line 164: the records first..last one after the other, each scanned with
\* the summary that the records before it left (the range is split in two
\* halves, the first scanned before the second)
ScanResults(summary, results, first, last) ==
    IF first > last \/ Len(summary) < 0 THEN summary
    ELSE IF first = last THEN ScanRecord(summary, results[first], 1)
    ELSE ScanResults(ScanResults(summary, results, first, (first + last) \div 2),
                     results, (first + last) \div 2 + 1, last)

\* a stable sort by descending count: e goes after the entries counted at
\* least as often
InsertDesc(sorted, e) ==
    SelectSeq(sorted, LAMBDA x : x.count >= e.count) \o <<e>>
        \o SelectSeq(sorted, LAMBDA x : x.count < e.count)

RECURSIVE SortedDesc(_, _, _)
SortedDesc(sorted, value_count, i) ==
    IF i > Len(value_count) THEN sorted
    ELSE SortedDesc(InsertDesc(sorted, value_count[i]), value_count, i + 1)

\* Counter.most_common(n)
most_common(value_count, n) == Take(SortedDesc(<<>>, value_count, 1), n)

\* lines 184-191
Formatted(summary) ==
    [k \in 1..Len(summary) |->
        [field |-> summary[k].field,
         sample_values |-> summary[k].sample_values,
         unique_count |-> Len(summary[k].value_count),
         top_values |-> most_common(summary[k].value_count, SampleCap)]]

\* _generate_field_summary(results)
generate_field_summary(results) ==
    IF results = <<>> THEN <<>>
    ELSE Formatted(ScanResults(<<>>, Take(results, SampleSize), 1, Len(Take(results, SampleSize))))

\* lines 209 and 216: the hosts and the sources kept by most_common(5)
EventTop == 5

F_severity == <<"s", "e", "v", "e", "r", "i", "t", "y">>
F_level == <<"l", "e", "v", "e", "l">>
F_log_level == <<"l", "o", "g", "_", "l", "e", "v", "e", "l">>

\* a multivalue field: the JSON reader gives a list, which has no hash
ListOf(n) == [kind |-> "list", text |-> n]
\* the str 'unknown'
Unknown == Str(0)

\* r.get(field, 'unknown')
GetOrUnknown(r, field) == IF HasField(r, field) THEN ValueOf(r, field) ELSE Unknown

\* any(field in r for r in results)
AnyHas(results, field) == \E i \in 1..Len(results) : HasField(results[i], field)

\* a key of the Counter cannot be hashed
Unhashable(results, field) ==
    \E i \in 1..Len(results) : GetOrUnknown(results[i], field).kind = "list"

RECURSIVE CounterFrom(_, _, _, _)
\* Counter(r.get(field, 'unknown') for r in results), from record i on
CounterFrom(value_count, results, field, i) ==
    IF i > Len(results) THEN value_count
    ELSE CounterFrom(Counted(value_count, GetOrUnknown(results[i], field)),
                     results, field, i + 1)

CounterOf(results, field) == CounterFrom(<<>>, results, field, 1)

\* line 222: for severity_field in ['severity', 'level', 'log_level']
SeverityFields == <<F_severity, F_level, F_log_level>>

\* the severity fields some record has, in the order of line 222
SeverityPresent(results) == SelectSeq(SeverityFields, LAMBDA f : AnyHas(results, f))

\* lines 222-228: the first severity field some record has, then break
SeverityFirst(results) ==
    IF SeverityPresent(results) = <<>> THEN <<>>
    ELSE <<SeverityPresent(results)[1]>>

\* the fields a Counter is built for
Counters(results) ==
    {f \in {F_host, F_source, F_sourcetype} : AnyHas(results, f)}
        \cup {SeverityFirst(results)[i] : i \in 1..Len(SeverityFirst(results))}

\* a mapping with no key
EmptyDict == [k \in {} |-> 0]

\* lines 205-210
HostsOf(results) ==
    IF AnyHas(results, F_host)
    THEN ("unique_hosts" :> Len(CounterOf(results, F_host)))
            @@ ("top_hosts" :> most_common(CounterOf(results, F_host), EventTop))
    ELSE EmptyDict

\* lines 212-217
SourcesOf(results) ==
    IF AnyHas(results, F_source)
    THEN ("unique_sources" :> Len(CounterOf(results, F_source)))
            @@ ("top_sources" :> most_common(CounterOf(results, F_source), EventTop))
    ELSE EmptyDict

\* lines 219-223
SourcetypeDistribution(results) ==
    IF AnyHas(results, F_sourcetype)
    THEN "sourcetypes" :> most_common(CounterOf(results, F_sourcetype), Len(results))
    ELSE EmptyDict

\* lines 226-232
SeverityDistribution(results) ==
    IF SeverityFirst(results) # <<>>
    THEN "severity_distribution" :>
            most_common(CounterOf(results, SeverityFirst(results)[1]), Len(results))
    ELSE EmptyDict

\* building one of the Counters of _generate_event_summary raises
EventSummaryRaises(results) ==
    results # <<>> /\ \E f \in Counters(results) : Unhashable(results, f)

\* _generate_event_summary(results)
generate_event_summary(results) ==
    IF results = <<>> THEN Ok(EmptyDict)
    ELSE IF EventSummaryRaises(results) THEN Raise("TypeError", "unhashable")
    ELSE Ok(("total_events" :> Len(results)) @@ HostsOf(results) @@ SourcesOf(results)
                @@ SourcetypeDistribution(results) @@ SeverityDistribution(results))

\* every record of the result set cleaned, with no cap
PreviewUncapped(results) == clean_results(results)

\* line 111: self._clean_results(results[:100])
Preview(results) == clean_results(Take(results, PreviewCap))

\* _format_error_response(query_data), lines 129-143
format_error_response(query_data) ==
    [type |-> "query_error", status |-> "error",
     error_type |-> Get(query_data, "error_type", "unknown")]

\* lines 86-101
FormattedBase(results, pagination) ==
    [type |-> "query_results", status |-> "success",
     statistics |-> [total_results |-> Len(results)],
     pagination |-> pagination,
     field_summary |-> generate_field_summary(results)]

\* lines 104-108
OnePage(formatted, results, include_raw) ==
    ("message" :> "completed")
        @@ (IF include_raw THEN ("results" :> clean_results(results)) @@ formatted
            ELSE formatted)

\* lines 109-121
Paginated(formatted, results, page_size, pagination) ==
    ("results_preview" :> Preview(results))
        @@ ("message" :> "preview")
        @@ ("pagination_guidance" :>
                [total_pages |-> pagination.total_pages, results_per_page |-> page_size])
        @@ formatted

\* FormatWith giving one page only to fewer results than a page holds
FormatWithStrict(results, include_raw, page_size, pagination) ==
    IF pagination.exc # "none" THEN pagination
    ELSE IF EventSummaryRaises(results) THEN Raise("TypeError", "unhashable")
    ELSE IF Len(results) < page_size
    THEN Ok(OnePage(FormattedBase(results, pagination.val), results, include_raw))
    ELSE Ok(Paginated(FormattedBase(results, pagination.val), results, page_size,
                      pagination.val))

\* lines 77-127, once the pagination is known: the summaries (the event
\* summary may raise, line 83), then the records
FormatWith(results, include_raw, page_size, pagination) ==
    IF pagination.exc # "none" THEN pagination
    ELSE IF EventSummaryRaises(results) THEN Raise("TypeError", "unhashable")
    ELSE IF Len(results) <= page_size
    THEN Ok(OnePage(FormattedBase(results, pagination.val), results, include_raw))
    ELSE Ok(Paginated(FormattedBase(results, pagination.val), results, page_size,
                      pagination.val))

\* format_query_response(query_data, include_raw, page_size)
format_query_response(query_data, include_raw, page_size) ==
    IF query_data.status = "error" THEN Ok(format_error_response(query_data))
    ELSE FormatWith(Get(query_data, "results", <<>>), include_raw, page_size,
                    calculate_pagination(Len(Get(query_data, "results", <<>>)), page_size))

(***************************************************************************)
(* The formatter called on its own.                                        *)
(***************************************************************************)
CallCalculatePagination(total_results, page_size) ==
    /\ fmt = NoFmt
    /\ fmt' = [op |-> "calculate_pagination", total_results |-> total_results,
               page_size |-> page_size,
               res |-> calculate_pagination(total_results, page_size)]
    /\ UNCHANGED <<credVars, clientVars, toolVars>>

CallCleanResults(results) ==
    /\ fmt = NoFmt
    /\ fmt' = [op |-> "clean_results", results |-> results,
               res |-> clean_results(results)]
    /\ UNCHANGED <<credVars, clientVars, toolVars>>

CallFieldSummary(results) ==
    /\ fmt = NoFmt
    /\ fmt' = [op |-> "generate_field_summary", results |-> results,
               res |-> generate_field_summary(results)]
    /\ UNCHANGED <<credVars, clientVars, toolVars>>

CallFormatQuery(query_data, include_raw, page_size) ==
    /\ fmt = NoFmt
    /\ fmt' = [op |-> "format_query_response", query_data |-> query_data,
               include_raw |-> include_raw, page_size |-> page_size,
               res |-> format_query_response(query_data, include_raw, page_size)]
    /\ UNCHANGED <<credVars, clientVars, toolVars>>

CallEventSummary(results) ==
    /\ fmt = NoFmt
    /\ fmt' = [op |-> "generate_event_summary", results |-> results,
               res |-> generate_event_summary(results)]
    /\ UNCHANGED <<credVars, clientVars, toolVars>>

\* the call returns to its caller
FormatterReturn ==
    /\ fmt # NoFmt
    /\ fmt' = NoFmt
    /\ UNCHANGED <<credVars, clientVars, toolVars>>

MaxFields == 3
MaxRows == 2
MaxOver == 2
MaxDistinct == 6
MaxPage == 2
MaxTotal == 8

FieldNames == {F_time, F_host, F_source, F_sourcetype, F_message, F_raw, F_cd, F_user}
\* one value per field: a str for the internal fields, another value for the rest
Items ==
    {Item(field, IF IsInternal(field) THEN Str(Len(field)) ELSE NotStr(Len(field))) :
        field \in FieldNames}

\* the dicts of at most MaxFields items
Records ==
    {r \in UNION {[1..n -> Items] : n \in 0..MaxFields} :
        \A i, j \in 1..Len(r) : i # j => r[i].field # r[j].field}

Rows ==
    {<<>>,
     <<Item(F_host, Str(1))>>,
     <<Item(F_host, Str(2))>>,
     <<Item(F_host, NotStr(1))>>,
     <<Item(F_cd, Str(1))>>,
     <<Item(F_user, Str(1)), Item(F_host, Str(2))>>}

ShortLists == UNION {[1..n -> Rows] : n \in 0..MaxRows}

\* n records that cycle through m values of one field, and past the sample
\* carry values the sample does not have
LongList(n, m, kind) ==
    [i \in 1..n |->
        <<Item(F_cd, Str(i)),
          Item(F_host, [kind |-> kind, text |-> IF i > SampleSize THEN m + i ELSE i % m])>>]

LongLists ==
    {LongList(n, m, kind) : n \in (PreviewCap - 1)..(PreviewCap + MaxOver),
                            m \in 1..MaxDistinct, kind \in {"str", "other"}}

ResultLists == ShortLists \cup LongLists

PageSizes == 0..MaxPage \cup {PreviewCap - 1, PreviewCap, PreviewCap + 1}
Totals == 0..MaxTotal \cup (PreviewCap - 1)..(PreviewCap + MaxOver)

QueryData ==
    {[status |-> "success", results |-> results] : results \in ResultLists}
        \cup {[status |-> "success"]}
        \cup {[status |-> "error", error_type |-> e] :
                e \in {"timeout", "http_error", "general_error"}}

FormatterNext ==
    \/ \E total_results \in Totals, page_size \in PageSizes :
            CallCalculatePagination(total_results, page_size)
    \/ \E result \in Records : CallCleanResults(<<result>>)
    \/ \E results \in ResultLists : CallCleanResults(results)
    \/ \E results \in ResultLists : CallFieldSummary(results)
    \/ \E query_data \in QueryData, include_raw \in BOOLEAN, page_size \in PageSizes :
            CallFormatQuery(query_data, include_raw, page_size)
    \/ FormatterReturn

FormatterInit == CredInit /\ ClientInit /\ FmtInit /\ ToolIdle
SpecFmt == FormatterInit /\ [][FormatterNext]_vars

MaxEvents == 2
MaxHosts == 6

\* the items of the records summarised: a field the summary looks at with
\* a str, the str 'unknown' or a list, or a field it does not look at
EventItems ==
    {Item(F_host, Str(1)), Item(F_host, Str(2)), Item(F_host, ListOf(1)),
     Item(F_source, Str(1)), Item(F_sourcetype, Str(1)), Item(F_sourcetype, Unknown),
     Item(F_severity, Str(1)), Item(F_level, Str(2)), Item(F_level, ListOf(2)),
     Item(F_log_level, Str(3)), Item(F_user, Str(1))}

\* the dicts of at most one item, and some of two
EventRecords ==
    {<<>>} \cup {<<e>> : e \in EventItems}
        \cup {<<Item(F_level, Str(2)), Item(F_severity, Str(1))>>,
              <<Item(F_log_level, Str(3)), Item(F_level, Str(2))>>,
              <<Item(F_host, Str(1)), Item(F_source, Str(1))>>,
              <<Item(F_user, Str(1)), Item(F_host, ListOf(1))>>}

\* n records over m hosts and sources, the later values the more frequent
EventRun(n, m) ==
    [i \in 1..n |-> <<Item(F_host, Str(1 + (i % m))), Item(F_source, Str(1 + ((i * i) % m))),
                      Item(F_sourcetype, Str(1 + (i % m)))>>]

EventLists ==
    UNION {[1..n -> EventRecords] : n \in 0..MaxEvents}
        \cup {EventRun(n, m) : n \in 1..(2 * MaxHosts), m \in 1..MaxHosts}

EventNext ==
    \/ \E results \in EventLists : CallEventSummary(results)
    \/ FormatterReturn

EventInit == CredInit /\ ClientInit /\ FmtInit /\ ToolIdle
SpecEvents == EventInit /\ [][EventNext]_vars

(***************************************************************************)
(* Claims about the formatter, checked under SpecFmt.                      *)
(***************************************************************************)
\* the least number of pages of page_size records that hold total records
CeilDiv(total, page_size) ==
    CHOOSE n \in 0..total :
        /\ n * page_size >= total
        /\ \A m \in 0..(n - 1) : m * page_size < total

PaginationOf(res, total, page_size) ==
    /\ res.total_pages = CeilDiv(total, page_size)
    /\ res.requires_pagination = (total > page_size)
    /\ (total = page_size => ~res.requires_pagination)
    /\ (total = page_size + 1 => res.requires_pagination /\ res.total_pages = 2)

\* C12: for every total_results >= 0 and page_size >= 1 the pagination has
\* total_pages = ceil(total_results / page_size), and requires_pagination is
\* true exactly when total_results > page_size; total_results = page_size
\* needs no pagination and total_results = page_size + 1 needs two pages.
C12_PaginationBoundary ==
    (fmt.op = "calculate_pagination" /\ fmt.page_size >= 1) =>
        /\ fmt.res.exc = "none"
        /\ PaginationOf(fmt.res.val, fmt.total_results, fmt.page_size)

C12_Witness ==
    /\ fmt.op = "calculate_pagination"
    /\ fmt.page_size = PreviewCap
    /\ fmt.total_results = fmt.page_size + 1
    /\ fmt.res.exc = "none"
    /\ fmt.res.val.total_pages = 2
    /\ fmt.res.val.requires_pagination

\* a call of format_query_response on a success envelope, answered
FormattedSuccess ==
    /\ fmt.op = "format_query_response"
    /\ fmt.query_data.status = "success"
    /\ Has(fmt.query_data, "results")
    /\ fmt.page_size >= 1

\* records is exactly the first n records of results, each cleaned
CleanedPrefix(records, results, n) ==
    /\ Len(records) = n
    /\ \A i \in 1..n : records[i] = CleanRecord(results[i])

\* C13: a success envelope with total_results <= page_size is answered with
\* the full cleaned result set under results, one cleaned record per input
\* record in input order, for every value of include_raw.
C13_FullSetEmbedded ==
    (FormattedSuccess /\ Len(fmt.query_data.results) <= fmt.page_size) =>
        /\ fmt.res.exc = "none"
        /\ Has(fmt.res.val, "results")
        /\ CleanedPrefix(fmt.res.val["results"], fmt.query_data.results,
                         Len(fmt.query_data.results))

Min(a, b) == IF a < b THEN a ELSE b

Holders(sample, field) == SelectSeq(sample, LAMBDA r : HasField(r, field))

\* the texts of the field's values, in the order the sample has them
ColumnOf(holders, field) ==
    [i \in 1..Len(holders) |-> PyStr(ValueOf(holders[i], field))]

Column(sample, field) == ColumnOf(Holders(sample, field), field)

Range(seq) == {seq[i] : i \in 1..Len(seq)}

\* the place where the column has v for the first time
FirstSeen(col, v) ==
    CHOOSE i \in 1..Len(col) : col[i] = v /\ \A j \in 1..(i - 1) : col[j] # v

Occurrences(col, v) == Cardinality({i \in 1..Len(col) : col[i] = v})

\* the fields of the sample that do not start with an underscore
VisibleFields(sample) ==
    {f \in FieldNames : ~IsInternal(f) /\ \E i \in 1..Len(sample) : HasField(sample[i], f)}

\* samples: at most 5, each a value of the column, in first-seen order,
\* none passed over
SamplesInOrder(samples, col) ==
    /\ Len(samples) <= 5
    /\ \A i \in 1..Len(samples) : samples[i] \in Range(col)
    /\ \A i, j \in 1..Len(samples) :
            i < j => FirstSeen(col, samples[i]) <= FirstSeen(col, samples[j])
    /\ \A v \in Range(col) : \A i \in 1..Len(samples) :
            FirstSeen(col, v) < FirstSeen(col, samples[i]) => v \in Range(samples)

\* top values: at most 5, with their counts in the column, by descending
\* count, equal counts in first-seen order, no more frequent value left out
TopInOrder(top, col) ==
    /\ Len(top) = Min(5, Cardinality(Range(col)))
    /\ \A i \in 1..Len(top) :
            top[i].value \in Range(col) /\ top[i].count = Occurrences(col, top[i].value)
    /\ \A i, j \in 1..Len(top) :
            i < j => \/ top[i].count > top[j].count
                     \/ /\ top[i].count = top[j].count
                        /\ FirstSeen(col, top[i].value) < FirstSeen(col, top[j].value)
    /\ \A v \in Range(col) : \A i \in 1..Len(top) :
            Occurrences(col, v) > top[i].count => \E j \in 1..Len(top) : top[j].value = v

SummaryOf(summary, sample) ==
    /\ {summary[k].field : k \in 1..Len(summary)} = VisibleFields(sample)
    /\ \A k \in 1..Len(summary) :
            /\ SamplesInOrder(summary[k].sample_values, Column(sample, summary[k].field))
            /\ TopInOrder(summary[k].top_values, Column(sample, summary[k].field))

\* C15: the field summary looks at the first 100 records only and
\* summarizes only the fields that do not start with an underscore; for each
\* of them sample_values lists values in first-seen order and has at most 5
\* entries, and top_values has at most 5 entries sorted by descending count,
\* ties in first-seen order.
C15_FieldSummaryOrder ==
    fmt.op = "generate_field_summary" => SummaryOf(fmt.res, Take(fmt.results, 100))

\* C16: for every summarized field the entries of sample_values are
\* pairwise distinct and so number at most unique_count, also when the
\* values of the field are not strings.
C16_SamplesDistinct ==
    fmt.op = "generate_field_summary" =>
        \A k \in 1..Len(fmt.res) :
            /\ \A i, j \in 1..Len(fmt.res[k].sample_values) :
                    i # j => fmt.res[k].sample_values[i] # fmt.res[k].sample_values[j]
            /\ Len(fmt.res[k].sample_values) <= fmt.res[k].unique_count

FieldsOf(d) == [i \in 1..Len(d) |-> d[i].field]

\* the fields a cleaned record is to have, in order
CleanOrder(fields) ==
    SelectSeq(<<F_time, F_host, F_source, F_sourcetype, F_message, F_raw>>,
              LAMBDA f : f \in Range(fields))
    \o SelectSeq(fields,
                 LAMBDA f : ~IsInternal(f) /\ f \notin {F_host, F_source, F_sourcetype, F_message})
    \o (IF F_raw \notin Range(fields) /\ F_message \notin Range(fields)
        THEN SelectSeq(fields, LAMBDA f : IsInternal(f) /\ f \notin {F_time, F_raw})
        ELSE <<>>)

\* C17: a cleaned record has the priority fields _time, host, source,
\* sourcetype, message, _raw first, in that order, when the record has them;
\* then every other field not starting with an underscore, in record order;
\* and the other underscore fields (never _time or _raw again) exactly when
\* the record has neither _raw nor message; each field keeps its value.
C17_CleanOrder ==
    fmt.op = "clean_results" =>
        /\ Len(fmt.res) = Len(fmt.results)
        /\ \A i \in 1..Len(fmt.res) :
                /\ FieldsOf(fmt.res[i]) = CleanOrder(FieldsOf(fmt.results[i]))
                /\ \A k \in 1..Len(fmt.res[i]) :
                        fmt.res[i][k].value = ValueOf(fmt.results[i], fmt.res[i][k].field)

C17_Witness ==
    /\ fmt.op = "clean_results"
    /\ fmt.results = <<<<Item(F_cd, Str(3)), Item(F_user, NotStr(4)), Item(F_message, NotStr(7))>>>>
    /\ fmt.res = <<<<Item(F_message, NotStr(7)), Item(F_user, NotStr(4))>>>>

(***************************************************************************)
(* The client methods behind the tools, src/utils/splunk_client.py lines   *)
(* 155-190 and 312-362, and call_tool, splunk_mcp.py lines 150-303.        *)
(***************************************************************************)
\* line 172: [...][:10]
IndexCap == 10

\* lines 174-183: what check_connection returns on a service of n indexes
Connected(n) ==
    [exc |-> "none", kind |-> "connection_data",
     val |-> [status |-> "connected", server_info |-> "info",
              available_indexes |-> Take([i \in 1..n |-> i], IndexCap)]]

\* lines 166-183: service.info() and service.indexes.list(), which answers
\* n indexes; the first that raises ends the try block in the except clause
\* of line 185
CkInfo(t, outcome, n) ==
    /\ th[t].pc = "ck_info"
    /\ Set(t, [th[t] EXCEPT !.pc = "done",
                  !.ret = IF outcome = "ok" THEN Connected(n)
                          ELSE MethodCaught("check", outcome, "")])
    /\ UNCHANGED <<connections, live, nsess, stored, tested>>
    /\ UNCHANGED <<credVars, fmtVars, toolVars>>

\* lines 321-325: service.indexes.list() answers n indexes, or raises
IxList(t, outcome, n) ==
    /\ th[t].pc = "ix_list"
    /\ Set(t, [th[t] EXCEPT !.pc = "done",
                  !.ret = IF outcome = "ok"
                          THEN [exc |-> "none", kind |-> "list",
                                val |-> [i \in 1..n |-> "index"]]
                          ELSE MethodCaught("indexes", outcome, "")])
    /\ UNCHANGED <<connections, live, nsess, stored, tested>>
    /\ UNCHANGED <<credVars, fmtVars, toolVars>>

\* r.get('sourcetype', '') for r in results, then the empty ones dropped
RECURSIVE SourcetypeColumn(_)
SourcetypeColumn(results) ==
    IF results = <<>> THEN <<>>
    ELSE (IF HasField(Head(results), F_sourcetype)
          THEN <<ValueOf(Head(results), F_sourcetype)>> ELSE <<>>)
         \o SourcetypeColumn(Tail(results))

\* lines 354-362: what get_sourcetypes makes of the outcome of execute_query
SourcetypesOf(ret) ==
    IF ret.exc # "none" THEN MethodCaught("sourcetypes", ret.exc, ret.kind)
    ELSE IF ret.val.status = "success"
    THEN [exc |-> "none", kind |-> "list", val |-> SourcetypeColumn(ret.val.results)]
    ELSE [exc |-> "none", kind |-> "list", val |-> <<>>]

\* what the client method returns to call_tool, or raises
ClientResult(r) ==
    IF r.outer = "sourcetypes" THEN SourcetypesOf(r.ret) ELSE r.ret

\* the except clauses of call_tool without the last, lines 257-291
ToolHandlerTypedOnly(name, e, k) ==
    IF e \in {"FileNotFoundError", "ValueError", "ConnectionError"}
    THEN Ok([status |-> "error", tool |-> name, error |-> <<e, k>>,
             message |-> IF e = "FileNotFoundError" THEN "Configuration file not found"
                         ELSE IF e = "ValueError" THEN "Invalid parameters"
                         ELSE "Failed to connect to Splunk"])
    ELSE Raise(e, k)

\* the except clauses of call_tool, lines 257-303, in their order
ToolHandler(name, e, k) ==
    Ok([status |-> "error", tool |-> name, error |-> <<e, k>>,
        message |-> IF e = "FileNotFoundError" THEN "Configuration file not found"
                    ELSE IF e = "ValueError" THEN "Invalid parameters"
                    ELSE IF e = "ConnectionError" THEN "Failed to connect to Splunk"
                    ELSE "Failed to execute"])

\* format_connection_response, response_formatter.py lines 22-50
format_connection_response(connection_data) ==
    IF connection_data.status = "connected"
    THEN [type |-> "connection_status", status |-> "connected",
          server_info |-> connection_data.server_info,
          available_indexes |-> connection_data.available_indexes,
          message |-> "Successfully connected to Splunk"]
    ELSE [type |-> "connection_status", status |-> connection_data.status,
          error |-> connection_data.error, message |-> "Failed to connect to Splunk"]

\* format_indexes_response, response_formatter.py lines 290-301
format_indexes_response(indexes) ==
    [type |-> "indexes_list", status |-> "success", total_indexes |-> Len(indexes),
     indexes |-> indexes]

\* format_sourcetypes_response, response_formatter.py lines 303-323
format_sourcetypes_response(sourcetypes) ==
    [type |-> "sourcetypes_list", status |-> "success",
     total_sourcetypes |-> Len(sourcetypes), sourcetypes |-> sourcetypes]

\* format_environment_index_response, response_formatter.py lines 325-337
format_environment_index_response(environment) ==
    [type |-> "environment_index", status |-> "success", environment |-> environment]

\* a formatter call inside the try block: what it raises goes to the handlers
Formatted_(name, res) ==
    IF res.exc = "none" THEN res ELSE ToolHandler(name, res.exc, res.kind)

\* lines 174-252 after the client method came back with ret: the payload
Payload(name, ret, settings) ==
    IF ret.exc # "none" THEN ToolHandler(name, ret.exc, ret.kind)
    ELSE IF name = "check_connection" THEN Ok(format_connection_response(ret.val))
    ELSE IF name = "execute_query"
    THEN Formatted_(name, format_query_response(ret.val, settings.include_raw_events,
                                                settings.page_size))
    ELSE IF name = "get_available_indexes" THEN Ok(format_indexes_response(ret.val))
    ELSE Ok(format_sourcetypes_response(ret.val))

\* the exception that the client method or the formatter raised inside the
\* try block of call_tool, "none" if neither raised
RaisedIn(name, ret, settings) ==
    IF ret.exc # "none" THEN ret.exc
    ELSE IF name = "execute_query"
    THEN format_query_response(ret.val, settings.include_raw_events,
                               settings.page_size).exc
    ELSE "none"

\* arguments.get(key) is missing or empty
Missing(arguments, key) ==
    ~Has(arguments, key) \/ arguments[key] = (IF key = "query" THEN <<>> ELSE "")

\* line 222: query_settings.get('max_results', 10000)
DefaultMaxResults == 10000

\* lines 194-197: query.replace('\\"', '"')
RECURSIVE Unescape(_)
Unescape(q) ==
    IF q = <<>> THEN <<>>
    ELSE IF Len(q) >= 2 /\ q[1] = "\\" /\ q[2] = "\""
    THEN <<"\"">> \o Unescape(SubSeq(q, 3, Len(q)))
    ELSE <<Head(q)>> \o Unescape(Tail(q))

\* lines 161-172: the tool that needs no session
IndexForEnvironment(name, arguments) ==
    IF Missing(arguments, "environment") THEN ToolHandler(name, "ValueError", "required")
    ELSE IF arguments["environment"] \notin {"uat", "prod"}
    THEN ToolHandler(name, "ValueError", "environment")
    ELSE Ok(format_environment_index_response(arguments["environment"]))

\* which client method the tool runs on the worker thread
MethodOf(name) ==
    IF name = "check_connection" THEN "check"
    ELSE IF name = "execute_query" THEN "execute"
    ELSE IF name = "get_available_indexes" THEN "indexes"
    ELSE "sourcetypes"

ClientTools == {"check_connection", "execute_query", "get_available_indexes", "get_sourcetypes"}

\* Immediate with no else branch: a name that is not a tool runs the last
\* client method
ImmediateUnknownRuns(name, arguments, config) ==
    IF config # "ok" THEN ToolHandler(name, config, "config")
    ELSE IF name = "get_index_for_environment" THEN IndexForEnvironment(name, arguments)
    ELSE IF name = "execute_query" /\ Missing(arguments, "query")
    THEN ToolHandler(name, "ValueError", "required")
    ELSE NoRet

\* lines 156-255 up to the call of the client method: the outcome known at
\* once, or NoRet when the tool goes to the client
Immediate(name, arguments, config) ==
    IF config # "ok" THEN ToolHandler(name, config, "config")
    ELSE IF name = "get_index_for_environment" THEN IndexForEnvironment(name, arguments)
    ELSE IF name = "execute_query" /\ Missing(arguments, "query")
    THEN ToolHandler(name, "ValueError", "required")
    ELSE IF name \in ClientTools THEN NoRet
    ELSE ToolHandler(name, "ValueError", "unknown_tool")

ToolCalled(t, name, arguments, config, res) ==
    /\ tool' = [name |-> name, arguments |-> arguments, config |-> config,
                unreachable |-> FALSE, raised |-> "none", settings |-> NoSettings,
                envelope |-> NoRet,
                pc |-> IF res = NoRet THEN "client" ELSE "returned", res |-> res]
    /\ Set(t, IF res = NoRet
               THEN [EnterGetConnection(IdleThread, MethodOf(name), FALSE)
                        EXCEPT !.timeout = MaxTimeout,
                               !.query = IF name = "execute_query"
                                         THEN Unescape(arguments["query"]) ELSE <<>>,
                               !.max_results = IF name = "execute_query"
                                               THEN Get(arguments, "max_results",
                                                        DefaultMaxResults)
                                               ELSE 0]
               ELSE IdleThread)

\* call_tool(name, arguments) is invoked; get_config_reader() answers config
CallTool(t, name, arguments, config) ==
    /\ th[t].pc = "idle"
    /\ tool.pc # "client"
    /\ ToolCalled(t, name, arguments, config, Immediate(name, arguments, config))
    /\ UNCHANGED <<connections, live, nsess, stored, tested>>
    /\ UNCHANGED <<credVars, fmtVars>>

\* the client method is over and call_tool renders its payload
ToolReturn(t, settings) ==
    /\ tool.pc = "client"
    /\ th[t].pc = "done"
    /\ tool' = [tool EXCEPT !.pc = "returned", !.unreachable = th[t].unreachable,
                            !.settings = settings, !.envelope = ClientResult(th[t]),
                            !.raised = RaisedIn(tool.name, ClientResult(th[t]), settings),
                            !.res = Payload(tool.name, ClientResult(th[t]), settings)]
    /\ Set(t, IdleThread)
    /\ UNCHANGED <<connections, live, nsess, stored, tested>>
    /\ UNCHANGED <<credVars, fmtVars>>

ToolNames == ClientTools \cup {"get_index_for_environment", "restart"}
ToolArguments ==
    {<<>>, [environment |-> "uat"], [environment |-> ""], [environment |-> "dev"],
     [query |-> ClientQuery, max_results |-> 1],
     [query |-> <<"\\", "\"", "x", "\\", "\"">>], [query |-> <<>>]}
ConfigOutcomes == {"ok", "FileNotFoundError", "ValueError"}
\* how many indexes the service has: fewer than the cap, and one more
IndexCounts == {1, IndexCap + 1}
QuerySettings ==
    {[page_size |-> p, include_raw_events |-> b] : p \in {0, 1, 1000}, b \in BOOLEAN}
\* what the Job of a tool call may hold
ToolResults ==
    {<<>>,
     <<<<Item(F_host, Str(1))>>, <<Item(F_host, Str(1)), Item(F_cd, Str(1))>>>>,
     <<<<Item(F_sourcetype, Str(1))>>, <<Item(F_cd, Str(1)), Item(F_host, NotStr(1))>>>>}

ToolNext ==
    \/ \E t \in Threads, name \in ToolNames, arguments \in ToolArguments,
          config \in ConfigOutcomes : CallTool(t, name, arguments, config)
    \/ \E t \in Threads : CcCredentials(t)
    \/ \E t \in Threads : CcExhausted(t)
    \/ \E t \in Threads, o \in RemoteOutcomes : CcConnect(t, o)
    \/ \E t \in Threads, o \in RemoteOutcomes : CcTest(t, o)
    \/ \E t \in Threads : CcBackoff(t)
    \/ \E t \in Threads, alive \in BOOLEAN : GcProbe(t, alive)
    \/ \E t \in Threads : GcReturn(t)
    \/ \E t \in Threads, o \in CallOutcomes, n \in IndexCounts : CkInfo(t, o, n)
    \/ \E t \in Threads, o \in CallOutcomes, n \in 0..1 : IxList(t, o, n)
    \/ \E t \in Threads, o \in CallOutcomes : ExSubmit(t, o)
    \/ \E t \in Threads, o \in PollOutcomes, d \in 0..1 : ExPoll(t, o, d)
    \/ \E t \in Threads, o \in CallOutcomes : ExCancel(t, o)
    \/ \E t \in Threads, o \in CallOutcomes : ExStats(t, o)
    \/ \E t \in Threads, o \in CallOutcomes, yielded \in ToolResults :
            ExResults(t, o, yielded)
    \/ \E t \in Threads, o \in CallOutcomes : ExCleanup(t, o)
    \/ \E t \in Threads, has_message \in BOOLEAN : ExExcept(t, has_message)
    \/ \E t \in Threads, settings \in QuerySettings : ToolReturn(t, settings)

ToolInit == ServerCredInit /\ ClientInit /\ FmtInit /\ ToolIdle
SpecTool == ToolInit /\ [][ToolNext]_vars

(***************************************************************************)
(* Claims about the tool boundary, checked under SpecTool.                 *)
(***************************************************************************)
ToolReturned == tool.pc = "returned"

\* the call met a failure inside the try block: the configuration could not
\* be read, the tool is unknown, a required argument is missing or not
\* valid, or the client or the formatter raised
ToolFailed ==
    \/ tool.config # "ok"
    \/ tool.raised # "none"
    \/ tool.name \notin ClientTools \cup {"get_index_for_environment"}
    \/ tool.name = "execute_query" /\ Missing(tool.arguments, "query")
    \/ /\ tool.name = "get_index_for_environment"
       /\ (Missing(tool.arguments, "environment")
              \/ tool.arguments["environment"] \notin {"uat", "prod"})

UniformError(payload, name) ==
    /\ DOMAIN payload = {"status", "tool", "error", "message"}
    /\ payload.status = "error"
    /\ payload.tool = name

\* C18: no exception leaves call_tool: whatever the tool name, the
\* arguments and the failure (configuration, credentials, connection,
\* query), the call returns one payload, and a failure that call_tool
\* catches is rendered as {status: "error", tool, error, message} with tool
\* the name invoked.
C18_BoundaryCatchesAll ==
    ToolReturned =>
        /\ tool.res.exc = "none"
        /\ ToolFailed => UniformError(tool.res.val, tool.name)
        /\ Has(tool.res.val, "tool") => UniformError(tool.res.val, tool.name)

C18_Witness ==
    /\ ToolReturned
    /\ tool.name = "execute_query"
    /\ tool.res.exc = "none"
    /\ UniformError(tool.res.val, "execute_query")
    /\ tool.res.val.error = <<"AttributeError", "message">>

\* C19: when the session cannot be established during a call of
\* check_connection, execute_query, get_available_indexes or
\* get_sourcetypes, the payload is an error payload with status error that
\* carries the name of the tool and the connection failure, never a success
\* payload.
C19_ConnectionFailureReported ==
    (ToolReturned /\ tool.name \in ClientTools /\ tool.unreachable) =>
        /\ tool.res.exc = "none"
        /\ tool.res.val.status = "error"
        /\ Has(tool.res.val, "tool")
        /\ tool.res.val.tool = tool.name
        /\ Has(tool.res.val, "error")

(***************************************************************************)
(* Claims about the provisioning script, checked under SpecCli.            *)
(***************************************************************************)
MainOver == prov # NoProv

\* the decrypt-to-verify self-check answered the password that was typed
SelfCheckPassed == prov.check.exc = "none" /\ prov.check.val = prov.secret

\* C23: main() exits with a status other than 0 and has printed nothing of
\* the fragment whenever the username is empty, the password is empty, the
\* confirmation differs from the password, or the self-check raised or
\* answered another string; the fragment with username, ciphertext, salt
\* and identity tag is printed only after the self-check passed.
C23_CliExits ==
    MainOver =>
        /\ (StripText(prov.typed) = <<>> \/ prov.secret = <<>>
                \/ prov.confirm # prov.secret \/ ~SelfCheckPassed) =>
                (prov.out.exit # 0 /\ prov.out.printed = <<>>)
        /\ prov.out.printed # <<>> =>
                /\ SelfCheckPassed
                /\ prov.out.printed =
                        <<[username |-> StripText(prov.typed),
                           password_encrypted |-> prov.data.encrypted,
                           password_salt |-> prov.data.salt,
                           machine_hash |-> prov.data.machine_hash]>>

C23_Witness ==
    /\ MainOver
    /\ StripText(prov.typed) # <<>>
    /\ prov.secret # <<>>
    /\ prov.confirm = prov.secret
    /\ prov.check.exc = "ValueError"
    /\ prov.out = Exit1

(***************************************************************************)
(* Claims about check_connection, checked under SpecTool.                  *)
(***************************************************************************)
CheckOver(t) == th[t].op = "check" /\ th[t].pc = "done"

\* C24: check_connection never raises: it returns status connected with
\* server_info and at most 10 index names, or status error with the error
\* of the failure, a failure of get_connection included; no other status.
C24_CheckNeverRaises ==
    \A t \in Threads :
        CheckOver(t) =>
            /\ th[t].ret.exc = "none"
            /\ \/ /\ th[t].ret.val.status = "connected"
                  /\ ~th[t].unreachable
                  /\ Has(th[t].ret.val, "server_info")
                  /\ Len(th[t].ret.val.available_indexes) <= 10
               \/ /\ th[t].ret.val.status = "error"
                  /\ Has(th[t].ret.val, "error")

C24_Witness ==
    \E t \in Threads :
        /\ CheckOver(t)
        /\ th[t].unreachable
        /\ th[t].ret.exc = "none"
        /\ th[t].ret.val.status = "error"
        /\ th[t].ret.val.error = <<"ConnectionError", "auth">>

\* at most 10 names are returned of the 11 the service has
CheckCapsIndexes ==
    \E t \in Threads :
        /\ CheckOver(t)
        /\ th[t].ret.val.status = "connected"
        /\ Len(th[t].ret.val.available_indexes) = 10

(***************************************************************************)
(* Claims about a query from the Job to the payload, checked under         *)
(* SpecTool.                                                               *)
(***************************************************************************)
\* the fields that every record of results carries with one and the same
\* value
SharedFields(results) ==
    {f \in Range(FieldsOf(results[1])) :
        \A i \in 1..Len(results) :
            HasField(results[i], f) /\ ValueOf(results[i], f) = ValueOf(results[1], f)}

\* a call of the tool execute_query whose Job yielded n >= 1 records with a
\* shared field, n <= page_size, all of them returned by execute_query
SharedValueRun ==
    /\ ToolReturned
    /\ tool.name = "execute_query"
    /\ tool.envelope.exc = "none"
    /\ tool.envelope.val.status = "success"
    /\ Len(tool.envelope.val.results) >= 1
    /\ Len(tool.envelope.val.results) <= tool.settings.page_size
    /\ SharedFields(tool.envelope.val.results) # {}

\* C22: when the Job yields n >= 1 records that all carry the same value in
\* one field, n <= max_results and n <= page_size, execute_query returns a
\* success envelope with exactly those n records, and the payload has
\* statistics.total_results = n, the n records under results and not under
\* results_preview, and unique_count = 1 for that field.
C22_EndToEnd ==
    /\ \A t \in Threads :
            (ExecuteOver(t) /\ th[t].ret.exc = "none" /\ th[t].ret.val.status = "success"
                /\ Len(th[t].yielded) >= 1 /\ Len(th[t].yielded) <= th[t].max_results) =>
                th[t].ret.val.results = th[t].yielded
    /\ SharedValueRun =>
            /\ tool.res.exc = "none"
            /\ tool.res.val.statistics.total_results = Len(tool.envelope.val.results)
            /\ Has(tool.res.val, "results")
            /\ ~Has(tool.res.val, "results_preview")
            /\ Len(tool.res.val["results"]) = Len(tool.envelope.val.results)
            /\ \A f \in SharedFields(tool.envelope.val.results) :
                    \E k \in 1..Len(tool.res.val.field_summary) :
                        /\ tool.res.val.field_summary[k].field = f
                        /\ tool.res.val.field_summary[k].unique_count = 1

\* the same with the raw events included and looking at the fields the
\* summary covers
EndToEndWithRawEvents ==
    (SharedValueRun /\ tool.settings.include_raw_events) =>
        /\ tool.res.exc = "none"
        /\ tool.res.val.statistics.total_results = Len(tool.envelope.val.results)
        /\ Has(tool.res.val, "results")
        /\ ~Has(tool.res.val, "results_preview")
        /\ Len(tool.res.val["results"]) = Len(tool.envelope.val.results)
        /\ \A f \in SharedFields(tool.envelope.val.results) :
                ~IsInternal(f) =>
                    \E k \in 1..Len(tool.res.val.field_summary) :
                        /\ tool.res.val.field_summary[k].field = f
                        /\ tool.res.val.field_summary[k].unique_count = 1

(***************************************************************************)
(* Claims about the session slot, checked under Spec.                      *)
(***************************************************************************)
\* the call on thread t met a failure of _create_connection
EstablishmentFailed(t) == th[t].op \in {"connect", "execute"} /\ th[t].unreachable

\* C25: the slot is only ever assigned a session whose login and post-login
\* test call both succeeded, and a get_connection that fails (authentication
\* rejected, retries exhausted, credential error) leaves the slot exactly as
\* it was when that establishment was started.
C25_NoHalfInitialized ==
    /\ tested \subseteq 1..nsess
    /\ stored \subseteq tested
    /\ Slot # 0 => Slot \in tested
    /\ \A t \in Threads : EstablishmentFailed(t) => Slot = th[t].slotEst

C25_Witness ==
    \E t \in Threads :
        /\ th[t].op = "connect"
        /\ th[t].pc = "done"
        /\ th[t].unreachable
        /\ th[t].service \in live \ tested
        /\ Slot # 0
        /\ Slot # th[t].slot0
        /\ Slot = th[t].slotEst

\* get_connection on thread t is over and its liveness probe had raised
ProbeFailedOver(t) == th[t].op = "connect" /\ th[t].pc = "done" /\ th[t].probe = "dead"

\* C26: an exception raised by the liveness probe never reaches the caller
\* of get_connection: the session counts as not alive and a new one is
\* established, which replaces the cached one and is the one returned;
\* the only exceptions the caller sees are those of that establishment.
C26_ProbeFailureReconnects ==
    \A t \in Threads :
        ProbeFailedOver(t) =>
            /\ th[t].site = 2
            /\ th[t].establishments >= 1
            /\ th[t].ret.exc = "none" =>
                    /\ th[t].ret.val = Slot
                    /\ th[t].ret.val # th[t].probed
                    /\ th[t].ret.val \in th[t].writes
                    /\ th[t].ret.val \in tested
                    /\ th[t].ret.val > th[t].probed
            /\ th[t].ret.exc # "none" =>
                    /\ th[t].unreachable
                    /\ th[t].ret.kind \in {"auth", "exhausted"} \cup CredentialKinds

C26_Witness ==
    \E t \in Threads :
        /\ ProbeFailedOver(t)
        /\ th[t].probed # 0
        /\ th[t].probed = th[t].slot0
        /\ th[t].ret.exc = "none"
        /\ th[t].ret.val = Slot
        /\ th[t].ret.val # th[t].probed

(***************************************************************************)
(* Two tool calls at once: asyncio.to_thread (splunk_mcp.py lines 174-252) *)
(* runs each client method on a worker thread of its own, and nothing      *)
(* guards self._connections.  Each thread makes one get_connection call.   *)
(***************************************************************************)
RaceInit ==
    /\ machine = 1
    /\ cfg = [username |-> <<117>>, password |-> <<233>>]
    /\ edits = 0
    /\ prov = NoProv
    /\ credCall = NoCall
    /\ connections = <<>>
    /\ live = {}
    /\ nsess = 0
    /\ stored = {}
    /\ tested = {}
    /\ th = [t \in {1, 2} |-> IdleThread]
    /\ fmt = NoFmt
    /\ tool = NoTool

\* the remote service answers, rejects the credentials, or times out
RaceOutcomes == {"ok", "http401", "timeout"}
\* the first call may force a new session, the second takes what it finds
RaceForce(t) == IF t = 1 THEN BOOLEAN ELSE {FALSE}

RaceNext ==
    \/ \E t \in Threads : \E force \in RaceForce(t) : CallConnect(t, force)
    \/ \E t \in Threads : CcCredentials(t)
    \/ \E t \in Threads : CcExhausted(t)
    \/ \E t \in Threads, o \in RaceOutcomes : CcConnect(t, o)
    \/ \E t \in Threads, o \in RaceOutcomes : CcTest(t, o)
    \/ \E t \in Threads : CcBackoff(t)
    \/ \E t \in Threads, alive \in BOOLEAN : GcProbe(t, alive)
    \/ \E t \in Threads : GcReturn(t)

SpecRace == RaceInit /\ [][RaceNext]_vars

\* both calls are over
BothOver == \A t \in Threads : th[t].op = "connect" /\ th[t].pc = "done"

\* the sessions that the two calls assigned to the slot
Written == UNION {th[t].writes : t \in Threads}

MaxPad == 1
Spaces(n) == [i \in 1..n |-> " "]
Pads == {Spaces(n) : n \in 0..MaxPad} \cup {<<"\t">>}
Prefixes(s) == {SubSeq(s, 1, n) : n \in 0..Len(s)}
Words == Prefixes(K_search) \cup Prefixes(K_index) \cup {K_pipe, <<"e", "r", "r", "o", "r">>}
Rests == {<<>>, <<" ", "x">>, <<"=", "m">>}
Queries == {p \o w \o r \o q : p \in Pads, w \in Words, r \in Rests, q \in Pads}

QueryInit ==
    /\ machine = 1
    /\ cfg = [username |-> <<117>>, password |-> <<233>>]
    /\ edits = 0
    /\ prov = NoProv
    /\ credCall = NoCall
    /\ connections = <<>>
    /\ live = {}
    /\ nsess = 0
    /\ stored = {}
    /\ tested = {}
    /\ th = [t \in {1} |-> IdleThread]
    /\ fmt = NoFmt
    /\ tool = NoTool

QueryNext ==
    \/ \E t \in Threads, query \in Queries :
            CallExecute(t, query, MaxTimeout, ClientMaxResults)
    \/ \E t \in Threads : CcCredentials(t)
    \/ \E t \in Threads : CcConnect(t, "ok")
    \/ \E t \in Threads : CcTest(t, "ok")
    \/ \E t \in Threads : GcProbe(t, TRUE)
    \/ \E t \in Threads : GcReturn(t)
    \/ \E t \in Threads, o \in {"ok", "HTTPError"} : ExSubmit(t, o)
    \/ \E t \in Threads : ExPoll(t, "done", 0)
    \/ \E t \in Threads : ExStats(t, "ok")
    \/ \E t \in Threads : ExResults(t, "ok", ClientYield)
    \/ \E t \in Threads : ExCleanup(t, "ok")
    \/ \E t \in Threads, has_message \in BOOLEAN : ExExcept(t, has_message)

SpecQuery == QueryInit /\ [][QueryNext]_vars

\* execute_query on thread t has called jobs.create
Submitted(t) == th[t].op = "execute" /\ Contains(th[t].log, "create")

\* s begins with search, | or index
BeginsWithKeyword(s) ==
    \/ StartsWith(s, <<"s", "e", "a", "r", "c", "h">>)
    \/ StartsWith(s, <<"|">>)
    \/ StartsWith(s, <<"i", "n", "d", "e", "x">>)

\* C28: the query handed to jobs.create is the input unchanged when the
\* input, stripped of surrounding whitespace, begins with search, | or
\* index, and is otherwise the input prefixed with "search "; so every
\* submitted query, stripped of surrounding whitespace, begins with one of
\* the three keywords, and normalizing it again changes nothing.
C28_Normalization ==
    \A t \in Threads :
        Submitted(t) =>
            /\ th[t].submitted =
                    IF BeginsWithKeyword(Strip(th[t].query)) THEN th[t].query
                    ELSE <<"s", "e", "a", "r", "c", "h", " ">> \o th[t].query
            /\ BeginsWithKeyword(Strip(th[t].submitted))
            /\ Normalized(th[t].submitted) = th[t].submitted

C28_Witness ==
    \E t \in Threads :
        /\ Submitted(t)
        /\ th[t].query = <<" ", "i", "n", "d", "e", "x", "=", "m">>
        /\ th[t].submitted = th[t].query

\* C28 as stated: every submitted query begins with search, | or index
C28_BeginsWithKeyword ==
    \A t \in Threads : Submitted(t) => BeginsWithKeyword(th[t].submitted)

(***************************************************************************)
(* Claims about the calls execute_query makes on its Job, checked under    *)
(* Spec.                                                                   *)
(***************************************************************************)
\* how many times the call x is in the log
Calls(log, x) == Cardinality({i \in 1..Len(log) : log[i] = x})

\* the call of jobs.create, a poll, the statistics, job.results or a cancel
\* raised
RemoteFailed(t) == Contains(th[t].log, "create") /\ th[t].raised # "None"

\* one execute_query calls jobs.create at most once, whatever fails
NoResubmission ==
    \A t \in Threads :
        th[t].op = "execute" => Calls(th[t].log, "create") <= 1 /\ th[t].job <= 1

\* C29: execute_query does not retry: one call submits at most one Job, and
\* a failure of the submission, of a poll or of the retrieval of the results
\* is reported once, as an error envelope, with no resubmission.
C29_NoRetry ==
    /\ NoResubmission
    /\ \A t \in Threads :
            (ExecuteOver(t) /\ RemoteFailed(t)) =>
                /\ th[t].ret.exc = "none"
                /\ th[t].ret.val.status = "error"

\* every call x of the log comes after a call y
After(log, x, y) ==
    \A i \in 1..Len(log) : log[i] = x => \E j \in 1..(i - 1) : log[j] = y

\* C30: inside execute_query the statistics are read and the results are
\* fetched only after a poll found the Job done, the statistics are read
\* before the results are fetched, the results are fetched in one batch of
\* at most max_results records, and on the success path the Job is
\* cancelled only after the results were fetched.
C30_ExecuteOrder ==
    \A t \in Threads :
        th[t].op = "execute" =>
            /\ After(th[t].log, "done", "create")
            /\ After(th[t].log, "stats", "done")
            /\ After(th[t].log, "results", "done")
            /\ After(th[t].log, "results", "stats")
            /\ Calls(th[t].log, "results") <= 1
            /\ th[t].fetches <= 1
            /\ Len(th[t].results) <= th[t].max_results
            /\ th[t].results = SubSeq(th[t].yielded, 1, Len(th[t].results))
            /\ (ExecuteOver(t) /\ th[t].ret.exc = "none" /\ th[t].ret.val.status = "success") =>
                    /\ th[t].fetches = 1
                    /\ th[t].ret.val.results = th[t].results
                    /\ After(th[t].log, "cancel", "results")
                    /\ Calls(th[t].log, "cancel") = 1

C30_Witness ==
    \E t \in Threads :
        /\ ExecuteOver(t)
        /\ th[t].ret.exc = "none"
        /\ th[t].ret.val.status = "success"
        /\ th[t].log = <<"create", "done", "stats", "results", "cancel">>
        /\ Len(th[t].yielded) > th[t].max_results
        /\ Len(th[t].ret.val.results) = th[t].max_results

(***************************************************************************)
(* One execute_query call run to its end: the worker thread keeps running  *)
(* and every remote call comes back, with an answer or an exception.       *)
(***************************************************************************)
\* the steps of the thread inside a call
LiveSteps ==
    \/ \E t \in Threads : CcCredentials(t)
    \/ \E t \in Threads : CcExhausted(t)
    \/ \E t \in Threads, o \in RemoteOutcomes : CcConnect(t, o)
    \/ \E t \in Threads, o \in RemoteOutcomes : CcTest(t, o)
    \/ \E t \in Threads : CcBackoff(t)
    \/ \E t \in Threads, alive \in BOOLEAN : GcProbe(t, alive)
    \/ \E t \in Threads : GcReturn(t)
    \/ \E t \in Threads, o \in CallOutcomes : ExSubmit(t, o)
    \/ \E t \in Threads, o \in PollOutcomes, d \in 0..1 : ExPoll(t, o, d)
    \/ \E t \in Threads, o \in CallOutcomes : ExCancel(t, o)
    \/ \E t \in Threads, o \in CallOutcomes : ExStats(t, o)
    \/ \E t \in Threads, o \in CallOutcomes : ExResults(t, o, ClientYield)
    \/ \E t \in Threads, o \in CallOutcomes : ExCleanup(t, o)
    \/ \E t \in Threads, has_message \in BOOLEAN : ExExcept(t, has_message)

LiveNext ==
    \/ \E t \in Threads, timeout \in ExTimeouts :
            CallExecute(t, ClientQuery, timeout, ClientMaxResults)
    \/ LiveSteps

LiveInit ==
    /\ machine = 1
    /\ cfg = [username |-> <<117>>, password |-> <<233>>]
    /\ edits = 0
    /\ prov = NoProv
    /\ credCall = NoCall
    /\ connections = <<>>
    /\ live = {}
    /\ nsess = 0
    /\ stored = {}
    /\ tested = {}
    /\ th = [t \in {1} |-> IdleThread]
    /\ fmt = NoFmt
    /\ tool = NoTool

SpecLive == LiveInit /\ [][LiveNext]_vars /\ WF_vars(LiveSteps)

\* every execute_query that was entered comes to its end
EventuallyOver == (th[1].op = "execute") ~> ExecuteOver(1)

\* C31: every execute_query eventually returns, whether or not the Job ever
\* reports done: the polling loop ends because a poll finds the Job done or
\* finds the elapsed time greater than the timeout, and the call then
\* returns an envelope.
C31_EventuallyReturns ==
    (th[1].op = "execute") ~> (ExecuteOver(1) /\ IsEnvelope(th[1].ret))

(***************************************************************************)
(* splunk_mcp.py, read_resource.  cfg is config['splunk'] of the one       *)
(* ConfigReader of the process (get_config_reader returns the singleton),  *)
(* the mapping that get_splunk_config hands to _create_connection.         *)
(***************************************************************************)
\* "***HIDDEN***", "***ENCRYPTED***" and "***SALT***"
Hidden == <<42, 42, 42, 72, 73, 68, 68, 69, 78, 42, 42, 42>>
EncryptedMask == <<42, 42, 42, 69, 78, 67, 82, 89, 80, 84, 69, 68, 42, 42, 42>>
SaltMask == <<42, 42, 42, 83, 65, 76, 84, 42, 42, 42>>

\* d[k] = v if k in d
Masked(d, k, v) == IF Has(d, k) THEN [d EXCEPT ![k] = v] ELSE d

\* lines 339-344: the three assignments to config['splunk'][...]
Sanitized(splunk) ==
    Masked(Masked(Masked(splunk, "password", Hidden), "password_encrypted", EncryptedMask),
           "password_salt", SaltMask)

\* line 335, config_reader.config.copy(): a new outer dict whose 'splunk'
\* is the dict the reader holds, so the assignments land in the reader's
SplunkAfterCopy(splunk) == Sanitized(splunk)

Uris == {"splunk://config", "splunk://environments", "splunk://other"}

\* what read_resource(uri) returns, lines 333-362
ResourceText(uri, splunk) ==
    IF uri = "splunk://config" THEN [splunk |-> Sanitized(splunk)]
    ELSE IF uri = "splunk://environments" THEN [environments |-> "env_info"]
    ELSE [error |-> "Unknown resource"]

\* read_resource(uri), with the configuration it found
ReadResource(uri) ==
    /\ tool = NoTool
    /\ tool' = [name |-> "read_resource", uri |-> uri, loaded |-> cfg,
                res |-> Ok(ResourceText(uri, cfg))]
    /\ cfg' = IF uri = "splunk://config" THEN SplunkAfterCopy(cfg) ELSE cfg
    /\ UNCHANGED <<machine, edits, prov, credCall>>
    /\ UNCHANGED <<clientVars, fmtVars>>

\* the text is handed to the MCP client
ResourceReturn ==
    /\ tool.name = "read_resource"
    /\ tool' = NoTool
    /\ UNCHANGED <<credVars, clientVars, fmtVars>>

ResourceNext ==
    \/ \E uri \in Uris : ReadResource(uri)
    \/ ResourceReturn
    \/ CreateNext

ResourceInit == ServerCredInit /\ ClientInit /\ FmtInit /\ ToolIdle
SpecResource == ResourceInit /\ [][ResourceNext]_vars

(***************************************************************************)
(* Claims about read_resource, checked under SpecResource.                 *)
(***************************************************************************)
ResourceRead == tool.name = "read_resource"

\* reading a resource other than splunk://config leaves the configuration
\* as it was
OtherResourcesLeaveConfig ==
    (ResourceRead /\ tool.uri # "splunk://config") => cfg = tool.loaded

\* what is returned for splunk://config shows no secret of the configuration
ConfigTextSanitized ==
    (ResourceRead /\ tool.uri = "splunk://config") =>
        \A k \in {"password", "password_encrypted", "password_salt"} :
            Has(tool.loaded, k) =>
                tool.res.val.splunk[k] \in {Hidden, EncryptedMask, SaltMask}

\* C34: reading splunk://config leaves the live configuration unchanged:
\* after the read the stored password, password_encrypted and password_salt
\* are the values that were loaded, and get_credentials gives what it gave
\* before the read.
C34_ReadLeavesConfig ==
    ResourceRead =>
        /\ \A k \in {"password", "password_encrypted", "password_salt"} :
                Has(tool.loaded, k) => Has(cfg, k) /\ cfg[k] = tool.loaded[k]
        /\ get_credentials(cfg, machine) = get_credentials(tool.loaded, machine)

(***************************************************************************)
(* Claims about the shape of a report, checked under SpecFmt.              *)
(***************************************************************************)
\* format_query_response returned the report of a success envelope
SuccessReport ==
    /\ fmt.op = "format_query_response"
    /\ fmt.query_data.status = "success"
    /\ fmt.res.exc = "none"

\* C36: a success report never has both results and results_preview; for
\* page_size >= 1 it has results_preview, and pagination_guidance, exactly
\* when pagination.requires_pagination is true, and then
\* pagination_guidance.total_pages is pagination.total_pages.
C36_ReportShape ==
    SuccessReport =>
        /\ ~(Has(fmt.res.val, "results") /\ Has(fmt.res.val, "results_preview"))
        /\ fmt.page_size >= 1 =>
            /\ Has(fmt.res.val, "results_preview") <=> fmt.res.val["pagination"].requires_pagination
            /\ Has(fmt.res.val, "pagination_guidance")
                    <=> fmt.res.val["pagination"].requires_pagination
            /\ Has(fmt.res.val, "pagination_guidance") =>
                    fmt.res.val["pagination_guidance"].total_pages
                        = fmt.res.val["pagination"].total_pages

\* a report of exactly one full page, and one of a record more
C36_Witness ==
    /\ SuccessReport
    /\ Has(fmt.query_data, "results")
    /\ fmt.page_size = PreviewCap
    /\ Len(fmt.query_data.results) = PreviewCap + 1
    /\ Has(fmt.res.val, "results_preview")
    /\ ~Has(fmt.res.val, "results")
    /\ fmt.res.val["pagination_guidance"].total_pages = 2

(***************************************************************************)
(* Claims about cleaning as a relation, checked under SpecFmt.             *)
(***************************************************************************)
CleanCalled == fmt.op = "clean_results"

\* every item of cleaned is an item of result
Within(cleaned, result) ==
    \A k \in 1..Len(cleaned) :
        \E j \in 1..Len(result) :
            result[j].field = cleaned[k].field /\ result[j].value = cleaned[k].value

\* every field of result that does not start with an underscore is in cleaned
KeepsVisible(cleaned, result) ==
    \A j \in 1..Len(result) :
        ~StartsWith(result[j].field, <<"_">>) => HasField(cleaned, result[j].field)

\* C37: cleaning loses no externally visible data and is idempotent: every
\* field of a cleaned record is a field of the input record with the same
\* value, every input field not starting with an underscore is in the
\* cleaned record, and cleaning the cleaned records again returns the same
\* fields in the same order.
C37_CleanLossless ==
    CleanCalled =>
        /\ Len(fmt.res) = Len(fmt.results)
        /\ \A i \in 1..Len(fmt.res) :
                /\ Within(fmt.res[i], fmt.results[i])
                /\ KeepsVisible(fmt.res[i], fmt.results[i])
        /\ clean_results(fmt.res) = fmt.res

\* a record whose cleaning moved a field and dropped an internal one
C37_Witness ==
    /\ CleanCalled
    /\ fmt.results = <<<<Item(F_cd, Str(3)), Item(F_user, NotStr(4)), Item(F_host, NotStr(4))>>>>
    /\ fmt.res = <<<<Item(F_host, NotStr(4)), Item(F_user, NotStr(4)), Item(F_cd, Str(3))>>>>
    /\ clean_results(fmt.res) = fmt.res

(***************************************************************************)
(* Claims about rejected tool calls, checked under SpecTool.               *)
(***************************************************************************)
\* the call in progress is one that call_tool rejects: a required argument
\* is missing or empty, or the name is not a tool
Rejected ==
    /\ tool.name # "none"
    /\ tool.config = "ok"
    /\ \/ tool.name = "execute_query" /\ Missing(tool.arguments, "query")
       \/ tool.name = "get_index_for_environment" /\ Missing(tool.arguments, "environment")
       \/ tool.name \notin ClientTools \cup {"get_index_for_environment"}

\* no thread has touched the remote service for the call in progress
NoRemoteInteraction ==
    \A t \in Threads :
        /\ th[t].pc = "idle"
        /\ th[t].probed = 0
        /\ th[t].establishments = 0
        /\ th[t].tries = 0
        /\ th[t].job = 0
        /\ th[t].log = <<>>

\* C38: a tool call rejected for a missing or empty required argument
\* (query of execute_query, environment of get_index_for_environment) or
\* for an unknown tool name returns at once with an error payload and
\* performs no remote interaction: no probe, no session establishment, no
\* job submission, and the session cache is as it was before the call.
C38_RejectedTouchesNothing ==
    [][Rejected' =>
        /\ tool'.pc = "returned"
        /\ UniformError(tool'.res.val, tool'.name)
        /\ NoRemoteInteraction'
        /\ UNCHANGED <<connections, live, nsess, stored, tested>>]_vars

\* an execute_query without a query, rejected while the cache holds a session
C38_Witness ==
    /\ Rejected
    /\ tool.name = "execute_query"
    /\ tool.arguments = [query |-> <<>>]
    /\ tool.pc = "returned"
    /\ "main" \in DOMAIN connections
    /\ nsess = 1
    /\ NoRemoteInteraction

(***************************************************************************)
(* Recovery of the session manager.  One thread calls get_connection again *)
(* and again; during a call made while the remote service accepts logins   *)
(* every login and every test of a new session succeeds and the session    *)
(* this call cached answers its probe, while a session cached by an        *)
(* earlier call may have expired.  The thread keeps running and every      *)
(* remote call comes back: the steps of a call are weakly fair.            *)
(***************************************************************************)
\* what the remote service may answer to a login or a test of thread t
Answers(t) == IF th[t].accepting THEN {"ok"} ELSE RemoteOutcomes

\* whether the session in the slot may answer the probe of thread t
Probes(t) == IF th[t].accepting /\ Slot \in th[t].writes THEN {TRUE} ELSE BOOLEAN

RecoverSteps ==
    \/ \E t \in Threads : CcCredentials(t)
    \/ \E t \in Threads : CcExhausted(t)
    \/ \E t \in Threads : \E o \in Answers(t) : CcConnect(t, o)
    \/ \E t \in Threads : \E o \in Answers(t) : CcTest(t, o)
    \/ \E t \in Threads : CcBackoff(t)
    \/ \E t \in Threads : \E alive \in Probes(t) : GcProbe(t, alive)
    \/ \E t \in Threads : GcReturn(t)

RecoverNext ==
    \/ \E t \in Threads, force \in BOOLEAN, accepting \in BOOLEAN :
            CallConnectWhile(t, force, accepting)
    \/ RecoverSteps
    \/ \E t \in Threads : Finish(t)

SpecRecover == LiveInit /\ [][RecoverNext]_vars /\ WF_vars(RecoverSteps)

\* thread t is in a connect() made while the remote service accepts logins,
\* and the connect() before it failed
RecoveringCall(t) ==
    /\ th[t].op = "connect"
    /\ th[t].accepting
    /\ th[t].prev.op = "connect"
    /\ th[t].prev.ret.exc \notin {"none", "pending"}

\* the call of thread t returned the session of the slot, which logged in,
\* passed its test and was not logged out
ReturnedHealthy(t) ==
    /\ th[t].op = "connect" /\ th[t].pc = "done"
    /\ th[t].ret.exc = "none"
    /\ th[t].ret.val = Slot
    /\ Slot \in tested \cap live

\* C39: a failed connect() never leaves the session manager unusable: after
\* failed connect() calls, with a stale session cached or with none, a
\* connect() made while the remote service accepts the login and the probe
\* succeeds comes to return a healthy session, which is the one in the
\* cache.
C39_Recovery == RecoveringCall(1) ~> (RecoveringCall(1) /\ ReturnedHealthy(1))

\* a recovering call that found an expired session in the cache and
\* replaced it
C39_Witness ==
    /\ RecoveringCall(1)
    /\ ReturnedHealthy(1)
    /\ th[1].slot0 # 0
    /\ th[1].probe = "dead"
    /\ Slot # th[1].slot0
    /\ Slot \in th[1].writes

(***************************************************************************)
(* Claims about the timeout classification, checked under Spec.            *)
(***************************************************************************)
\* the call ended with the envelope classified timeout
ReportedTimeout(t) == ExecuteOver(t) /\ th[t].ret = ErrorEnvelope("timeout")

\* a call that could not get its session, whatever made the logins fail
\* (timeouts included), is not reported as a timeout
ConnectFailureNotTimeout ==
    \A t \in Threads : (ExecuteOver(t) /\ th[t].unreachable) => ~ReportedTimeout(t)

\* C35: execute_query returns the envelope classified timeout only when a
\* poll found the Job not done with the elapsed time above the timeout and
\* the Job was then cancelled: an exception raised by a remote call is
\* never reported as a timeout with the Job left uncancelled.
C35_TimeoutOnlyAfterCancel ==
    \A t \in Threads :
        ReportedTimeout(t) =>
            /\ th[t].timedOut
            /\ th[t].cancels = 1

(***************************************************************************)
(* Claims about the event summary, checked under SpecEvents.               *)
(***************************************************************************)
SummaryCalled == fmt.op = "generate_event_summary"

\* the values of a field over the records, 'unknown' where it is missing
ValuesOf(results, field) == {GetOrUnknown(results[i], field) : i \in 1..Len(results)}
TimesOf(results, field, v) ==
    Cardinality({i \in 1..Len(results) : GetOrUnknown(results[i], field) = v})

\* top lists the n most frequent values of the field with their counts,
\* the most frequent first
IsDistribution(top, results, field, n) ==
    /\ Len(top) = Min(n, Cardinality(ValuesOf(results, field)))
    /\ \A k \in 1..Len(top) :
            /\ top[k].value \in ValuesOf(results, field)
            /\ top[k].count = TimesOf(results, field, top[k].value)
    /\ \A j, k \in 1..Len(top) :
            j < k => top[j].value # top[k].value /\ top[j].count >= top[k].count
    /\ \A v \in ValuesOf(results, field) :
            (\A k \in 1..Len(top) : top[k].value # v) =>
                \A k \in 1..Len(top) : top[k].count >= TimesOf(results, field, v)

\* what the summary says of the records
Reported(results, summary) ==
    /\ Has(summary, "total_events") /\ summary["total_events"] = Len(results)
    /\ Has(summary, "top_hosts") <=> AnyHas(results, F_host)
    /\ Has(summary, "top_hosts") =>
            IsDistribution(summary["top_hosts"], results, F_host, EventTop)
    /\ Has(summary, "top_sources") <=> AnyHas(results, F_source)
    /\ Has(summary, "top_sources") =>
            IsDistribution(summary["top_sources"], results, F_source, EventTop)
    /\ Has(summary, "sourcetypes") <=> AnyHas(results, F_sourcetype)
    /\ Has(summary, "sourcetypes") =>
            IsDistribution(summary["sourcetypes"], results, F_sourcetype, Len(results))
    /\ Has(summary, "severity_distribution") <=>
            \E i \in 1..Len(SeverityFields) : AnyHas(results, SeverityFields[i])
    /\ \A i \in 1..Len(SeverityFields) :
            (/\ AnyHas(results, SeverityFields[i])
             /\ \A j \in 1..(i - 1) : ~AnyHas(results, SeverityFields[j])) =>
                IsDistribution(summary["severity_distribution"], results,
                               SeverityFields[i], Len(results))

\* for a result set that is not empty and whose summarised fields hold one
\* value each, the summary is the one described
EventSummaryOfText ==
    (/\ SummaryCalled
     /\ fmt.results # <<>>
     /\ \A f \in Counters(fmt.results) : ~Unhashable(fmt.results, f)) =>
        /\ fmt.res.exc = "none"
        /\ Reported(fmt.results, fmt.res.val)

\* the summary of a result set that has more hosts than are kept
EventSummaryWitness ==
    /\ SummaryCalled
    /\ Cardinality(ValuesOf(fmt.results, F_host)) > EventTop
    /\ fmt.res.exc = "none"
    /\ Len(fmt.res.val["top_hosts"]) = EventTop

\* C33: the event summary reports total_events equal to the number of
\* records, the top 5 hosts and sources by count when any record has the
\* field, the full distribution of sourcetype, and the full distribution of
\* the first of severity, level, log_level that any record has, a record
\* without the field counting as 'unknown' (of a result set that has
\* records: the summary of none is the empty mapping).
C33_EventSummary ==
    (SummaryCalled /\ fmt.results # <<>>) =>
        /\ fmt.res.exc = "none"
        /\ Reported(fmt.results, fmt.res.val)

(***************************************************************************)
(* Claims about the credentials of an establishment, checked under         *)
(* SpecCreate.                                                             *)
(***************************************************************************)
\* get_credentials fails on the configuration the server runs with
CredentialsFail == get_credentials(cfg, machine).exc # "none"

\* C32: a credential failure is terminal for an establishment: the
\* credentials are obtained once, before the retry loop, so when
\* get_credentials fails the establishment makes no connection attempt,
\* sleeps no backoff and never calls decrypt_password a second time; the
\* failure of get_credentials is what the caller gets.
C32_CredentialFailureTerminal ==
    \A t \in Threads :
        (th[t].op = "create" /\ th[t].pc = "done" /\ CredentialsFail) =>
            /\ th[t].tries = 0
            /\ th[t].attempt = 0
            /\ th[t].slept = 0
            /\ th[t].establishments = 0
            /\ th[t].decrypts <= 1
            /\ th[t].ret.exc = get_credentials(cfg, machine).exc
            /\ th[t].ret.kind = get_credentials(cfg, machine).kind
            /\ nsess = 0

C32_Witness ==
    \E t \in Threads :
        /\ th[t].op = "create" /\ th[t].pc = "done"
        /\ th[t].retry_count = 3
        /\ th[t].ret.exc = "ValueError"
        /\ th[t].ret.kind = "machine_mismatch"
        /\ th[t].decrypts = 1
        /\ th[t].tries = 0

(***************************************************************************)
(* Claims about shutdown, checked under Spec.                              *)
(***************************************************************************)
CloseOver(t) == th[t].op = "close" /\ th[t].pc = "done"

\* C21: close_all_connections attempts a logout on every session of the
\* cache, a logout that raises neither stops the others nor leaves the
\* method, and the cache is empty when the method returns.
C21_ShutdownClose ==
    \A t \in Threads :
        CloseOver(t) =>
            /\ th[t].ret.exc = "none"
            /\ th[t].closing = <<>>
            /\ (th[t].slot0 # 0 => th[t].slot0 \in th[t].attempted)
            /\ connections = <<>>

C21_Witness ==
    \E t \in Threads :
        /\ CloseOver(t)
        /\ th[t].slot0 # 0
        /\ th[t].logoutFails = 1
        /\ th[t].slot0 \in live
        /\ th[t].ret.exc = "none"
        /\ connections = <<>>

====
